---- MODULE Spec2Model ----
(***************************************************************************)
(* amino: schema-first classification rules engine.                        *)
(*                                                                         *)
(* Specifications in this module                                           *)
(*   SpecEval      rule compilation and evaluation (rules/compiler.py,     *)
(*                 rules/optimizer.py, runtime/evaluator.py,               *)
(*                 runtime/engine.py)                                      *)
(*   SpecOps       the operator registry (operators/registry.py,           *)
(*                 operators/standard.py) and infix operator resolution    *)
(*   SpecValidate  the decision validator (runtime/validator.py)           *)
(*   Spec          the Engine facade (engine.py)                           *)
(***************************************************************************)
EXTENDS Integers, Sequences, FiniteSets, TLC

VARIABLES
    \* ---- rule evaluation (SpecEval) ----
    crule,        \* the CompiledRule last produced by RuleCompiler.compile_rule
    crules,       \* CompiledRules.rules: the list RuleEvaluator iterates
    options,      \* CompiledRules.matcher.options (MatchOptions)
    supplied,     \* rule ids in the order they were given to compile_rules
    res,          \* outcome of the last CompiledRule.evaluate call
    pairs,        \* list returned by RuleEvaluator.evaluate_rules_for_data
    rule_metadata,\* CompiledRules.rule_metadata : rule id -> metadata
    everr,        \* error raised by the last compile_rules call ("" when none)
    mres,         \* outcome of the last matcher / CompiledRules.eval call
    \* ---- operator registry (SpecOps, Spec) ----
    by_token,     \* OperatorRegistry._by_token : token -> list of OperatorDef
    symbols,      \* OperatorRegistry._symbols
    keywords,     \* OperatorRegistry._keywords
    opret,        \* outcome of the last registry / parser call
    \* ---- decision validator (SpecValidate) ----
    vmode,        \* DecisionValidator._mode
    vschema,      \* DecisionValidator._schema._ast.fields
    vdecision,    \* the decision handed to validate
    vret,         \* outcome of the last validate call
    \* ---- engine facade (Spec) ----
    frozen,       \* Engine._frozen
    called,       \* TRUE once Engine.compile or Engine.eval has been entered
    functions,    \* Engine._functions : name -> implementation
    types,        \* Engine._type_registry._types : name -> TypeDefinition
    ret,          \* outcome of the last Engine call
    \* ---- rule parser, schema registry (SpecParse, SpecSchema) ----
    pin,          \* RuleParser.tokens / the schema handed to the registry
    pout,         \* outcome of the last parse / registry call
    \* ---- objects shared between an Engine and its CompiledRules (SpecShare) ----
    compiled,     \* the CompiledRules returned so far: evaluator.function_registry
                  \* of each, 0 for the dict object that is Engine._functions,
                  \* k > 0 for the dict object dicts[k]
    dicts         \* the contents of the dict objects RuleEvaluator created itself

evalVars == <<crule, crules, options, supplied, res, pairs, rule_metadata, everr, mres>>
opsVars  == <<by_token, symbols, keywords, opret>>
valVars  == <<vmode, vschema, vdecision, vret>>
engVars  == <<frozen, called, functions, types, ret>>
parseVars == <<pin, pout>>
shareVars == <<compiled, dicts>>
vars     == <<evalVars, opsVars, valVars, engVars, parseVars, shareVars>>

(***************************************************************************)
(* Bounds                                                                  *)
(***************************************************************************)
MaxRules == 2       \* rules per compile_rules call
MaxRegs == 2        \* operator definitions registered on top of the preset
MaxFields == 2      \* fields of a decision schema
MaxPairs == 3       \* (rule_id, value) pairs handed to the matcher
MaxItems == 3       \* decisions in one CompiledRules.eval call
MaxOperands == 3    \* comparison operands of a parsed rule
MaxDecls == 3       \* declarations of a schema text
MaxCompiled == 2    \* CompiledRules objects one engine returns
MaxWords == 3       \* words of a rule text handed to the tokenizer

None == [t |-> "none"]
NoRule == [rule_id |-> 0]

Min(S) == CHOOSE m \in S : \A n \in S : m <= n

\* Body applied to a value computed once: LET name == val IN Body
Bind(val, Body(_)) == Body(val)

(***************************************************************************)
(* Python values.  Strings are codes; StrText gives the text of a code and *)
(* code 0 is the empty string, so codes order like the texts do.  A float  *)
(* [t |-> "float", v |-> k] is the number k + 0.5.                         *)
(***************************************************************************)
IntV(n)   == [t |-> "int", v |-> n]
FloatV(k) == [t |-> "float", v |-> k]
BoolV(b)  == [t |-> "bool", v |-> IF b THEN 1 ELSE 0]
StrV(c)   == [t |-> "str", v |-> c]
ListV(s)  == [t |-> "list", items |-> s]
DictV(m)  == [t |-> "dict", m |-> m]

StrText(c) == CASE c = 0 -> ""
                [] c = 1 -> "CA"
                [] c = 2 -> "NY"
                [] c = 3 -> "[A-Z]{2}"
                [] c = 4 -> "a@b.io"
                [] OTHER -> "city"

\* len(s) of a string code
StrLen(c) == CASE c = 0 -> 0
               [] c = 1 -> 2
               [] c = 2 -> 2
               [] c = 3 -> 8
               [] c = 4 -> 6
               [] OTHER -> 4

Ok(val)    == [ok |-> TRUE, val |-> val]
Raise(e)   == [ok |-> FALSE, err |-> e]

Numeric(val) == val.t \in {"int", "bool", "float"}

\* twice the number a numeric value stands for
Num(val) == IF val.t = "float" THEN 2 * val.v + 1 ELSE 2 * val.v

\* bool(value)
Truthy(val) ==
    CASE val.t = "bool" -> val.v = 1
      [] val.t = "int"  -> val.v # 0
      [] val.t = "float" -> TRUE
      [] val.t = "str"  -> val.v # 0
      [] val.t = "list" -> Len(val.items) > 0
      [] val.t = "dict" -> DOMAIN val.m # {}
      [] OTHER -> FALSE

\* l == r
RECURSIVE PyEq(_, _)
PyEq(l, r) ==
    IF Numeric(l) /\ Numeric(r) THEN Num(l) = Num(r)
    ELSE IF l.t = "list" /\ r.t = "list"
         THEN /\ Len(l.items) = Len(r.items)
              /\ \A i \in 1..Len(l.items) : PyEq(l.items[i], r.items[i])
    ELSE l = r

\* l < r ; ordering two values of unrelated types raises TypeError
RECURSIVE PyLt(_, _)
PyLt(l, r) ==
    IF Numeric(l) /\ Numeric(r) THEN Ok(BoolV(Num(l) < Num(r)))
    ELSE IF l.t = "str" /\ r.t = "str" THEN Ok(BoolV(l.v < r.v))
    ELSE IF l.t = "list" /\ r.t = "list"
         THEN LET n == IF Len(l.items) < Len(r.items) THEN Len(l.items) ELSE Len(r.items)
              IN Bind({i \in 1..n : ~PyEq(l.items[i], r.items[i])},
                      LAMBDA d : IF d = {} THEN Ok(BoolV(Len(l.items) < Len(r.items)))
                                 ELSE PyLt(l.items[Min(d)], r.items[Min(d)]))
    ELSE Raise("TypeError")

\* l <= r
PyLe(l, r) ==
    Bind(PyLt(l, r),
         LAMBDA lt : IF ~lt.ok THEN lt ELSE Ok(BoolV(lt.val.v = 1 \/ PyEq(l, r))))

\* l in r
PyIn(l, r) ==
    IF r.t = "list" THEN Ok(BoolV(\E i \in 1..Len(r.items) : PyEq(l, r.items[i])))
    ELSE IF r.t = "str" THEN (IF l.t = "str" THEN Ok(BoolV(l.v = 0 \/ l.v = r.v))
                              ELSE Raise("TypeError"))
    ELSE IF r.t = "dict" THEN (IF l.t \in {"list", "dict"} THEN Raise("TypeError")
                               ELSE Ok(BoolV(l.t = "str" /\ StrText(l.v) \in DOMAIN r.m)))
    ELSE Raise("TypeError")

Negate(r) == IF r.ok THEN Ok(BoolV(r.val.v = 0)) ELSE r

\* get_binary_operation(operator)(l, r); operators outside the match raise
get_binary_operation(operator, l, r) ==
    CASE operator = "="      -> Ok(BoolV(PyEq(l, r)))
      [] operator = "!="     -> Ok(BoolV(~PyEq(l, r)))
      [] operator = ">"      -> PyLt(r, l)
      [] operator = "<"      -> PyLt(l, r)
      [] operator = ">="     -> PyLe(r, l)
      [] operator = "<="     -> PyLe(l, r)
      [] operator = "in"     -> PyIn(l, r)
      [] operator = "not in" -> Negate(PyIn(l, r))
      [] OTHER               -> Raise("RuleEvaluationError")

(***************************************************************************)
(* Rule AST (rules/ast.py).  A variable name is the sequence of its dotted *)
(* parts; JoinDots is the name as one string.                              *)
(***************************************************************************)
Literal(val)          == [kind |-> "Literal", name |-> <<>>, op |-> "", value |-> val, args |-> <<>>]
Variable(parts)       == [kind |-> "Variable", name |-> parts, op |-> "", value |-> None, args |-> <<>>]
BinaryOp(o, l, r)     == [kind |-> "BinaryOp", name |-> <<>>, op |-> o, value |-> None, args |-> <<l, r>>]
UnaryOp(o, x)         == [kind |-> "UnaryOp", name |-> <<>>, op |-> o, value |-> None, args |-> <<x>>]
FunctionCall(f, a)    == [kind |-> "FunctionCall", name |-> <<f>>, op |-> "", value |-> None, args |-> a]

RECURSIVE JoinDots(_)
JoinDots(parts) ==
    IF Len(parts) = 0 THEN ""
    ELSE IF Len(parts) = 1 THEN parts[1]
    ELSE parts[1] \o "." \o JoinDots(Tail(parts))

\* evaluate_dotted_variable(name, data)
RECURSIVE evaluate_dotted_variable(_, _)
evaluate_dotted_variable(parts, value) ==
    IF Len(parts) = 0 THEN Ok(value)
    ELSE IF value.t = "dict" /\ parts[1] \in DOMAIN value.m
         THEN evaluate_dotted_variable(Tail(parts), value.m[parts[1]])
    ELSE Raise("RuleEvaluationError")

\* a host function applied to its arguments
CallHost(impl, argv) ==
    CASE impl = "ret_true"  -> Ok(BoolV(TRUE))
      [] impl = "ret_false" -> Ok(BoolV(FALSE))
      [] impl = "first_arg" -> (IF Len(argv) >= 1 THEN Ok(argv[1]) ELSE Raise("TypeError"))
      [] OTHER              -> Raise("ValueError")

(***************************************************************************)
(* rules/compiler.py: the closure tree built by generate_evaluator,        *)
(* evaluated on (data, functions).  A result carries the trace of the      *)
(* variables read and host functions invoked, in evaluation order.         *)
(***************************************************************************)
Val(val, tr)  == [ok |-> TRUE, val |-> val, err |-> "", trace |-> tr]
Exc(e, tr)    == [ok |-> FALSE, val |-> None, err |-> e, trace |-> tr]

RECURSIVE generate_evaluator(_, _, _)
RECURSIVE EvalArgs(_, _, _)

\* var_evaluator
var_evaluator(node, data, fns) ==
    Bind(JoinDots(node.name),
         LAMBDA key : IF key \in DOMAIN data THEN Val(data[key], <<key>>)
                      ELSE IF Len(node.name) > 1
                           THEN Bind(evaluate_dotted_variable(node.name, DictV(data)),
                                     LAMBDA r : IF r.ok THEN Val(r.val, <<key>>) ELSE Exc(r.err, <<key>>))
                      ELSE Exc("RuleEvaluationError", <<key>>))

\* a binary_evaluator that evaluates both operands before looking at the operator
binary_evaluator_eager(node, data, fns) ==
    Bind(generate_evaluator(node.args[1], data, fns),
         LAMBDA l : IF ~l.ok THEN l
                    ELSE Bind(generate_evaluator(node.args[2], data, fns),
                              LAMBDA r :
                                LET tr == l.trace \o r.trace
                                IN IF ~r.ok THEN Exc(r.err, tr)
                                   ELSE IF node.op = "and"
                                        THEN (IF Truthy(l.val) THEN Val(BoolV(Truthy(r.val)), tr) ELSE Val(l.val, tr))
                                   ELSE IF node.op = "or"
                                        THEN (IF Truthy(l.val) THEN Val(l.val, tr) ELSE Val(BoolV(Truthy(r.val)), tr))
                                   ELSE Bind(get_binary_operation(node.op, l.val, r.val),
                                             LAMBDA o : IF o.ok THEN Val(o.val, tr) ELSE Exc(o.err, tr))))

\* binary_evaluator
binary_evaluator(node, data, fns) ==
    Bind(generate_evaluator(node.args[1], data, fns),
         LAMBDA l : IF ~l.ok THEN l
                    ELSE IF node.op = "and" /\ ~Truthy(l.val) THEN l
                    ELSE IF node.op = "or" /\ Truthy(l.val) THEN l
                    ELSE Bind(generate_evaluator(node.args[2], data, fns),
                              LAMBDA r :
                                LET tr == l.trace \o r.trace
                                IN IF ~r.ok THEN Exc(r.err, tr)
                                   ELSE IF node.op \in {"and", "or"} THEN Val(BoolV(Truthy(r.val)), tr)
                                   ELSE Bind(get_binary_operation(node.op, l.val, r.val),
                                             LAMBDA o : IF o.ok THEN Val(o.val, tr) ELSE Exc(o.err, tr))))

\* unary_evaluator
unary_evaluator(node, data, fns) ==
    Bind(generate_evaluator(node.args[1], data, fns),
         LAMBDA x : IF ~x.ok THEN x
                    ELSE IF node.op = "not" THEN Val(BoolV(~Truthy(x.val)), x.trace)
                    ELSE Exc("RuleEvaluationError", x.trace))

\* function_evaluator
function_evaluator(node, data, fns) ==
    LET f == node.name[1]
    IN IF f \notin DOMAIN fns THEN Exc("RuleEvaluationError", <<>>)
       ELSE Bind(EvalArgs(node.args, data, fns),
                 LAMBDA a : IF ~a.ok THEN Exc(a.err, a.trace)
                            ELSE LET c == CallHost(fns[f], a.vals)
                                     tr == a.trace \o <<f>>
                                 IN IF c.ok THEN Val(c.val, tr) ELSE Exc(c.err, tr))

\* the argument list comprehension of function_evaluator, left to right
EvalArgs(args, data, fns) ==
    IF Len(args) = 0 THEN [ok |-> TRUE, vals |-> <<>>, err |-> "", trace |-> <<>>]
    ELSE Bind(generate_evaluator(Head(args), data, fns),
              LAMBDA h : IF ~h.ok THEN [ok |-> FALSE, vals |-> <<>>, err |-> h.err, trace |-> h.trace]
                         ELSE Bind(EvalArgs(Tail(args), data, fns),
                                   LAMBDA t : [ok |-> t.ok, vals |-> <<h.val>> \o t.vals, err |-> t.err,
                                               trace |-> h.trace \o t.trace]))

generate_evaluator(node, data, fns) ==
    CASE node.kind = "Literal"      -> Val(node.value, <<>>)
      [] node.kind = "Variable"     -> var_evaluator(node, data, fns)
      [] node.kind = "BinaryOp"     -> binary_evaluator(node, data, fns)
      [] node.kind = "UnaryOp"      -> unary_evaluator(node, data, fns)
      [] node.kind = "FunctionCall" -> function_evaluator(node, data, fns)
      [] OTHER                      -> Exc("RuleEvaluationError", <<>>)

\* CompiledRule.evaluate: any exception of the closure is re-raised as RuleEvaluationError
CompiledRule_evaluate(rule, data, fns) ==
    Bind(generate_evaluator(rule.root, data, fns),
         LAMBDA r : IF r.ok THEN r ELSE Exc("RuleEvaluationError", r.trace))

\* RuleEvaluator.evaluate_single
evaluate_single(rule, data, fns) ==
    Bind(CompiledRule_evaluate(rule, data, fns),
         LAMBDA r : IF r.ok THEN r ELSE Exc("RuleEvaluationError", r.trace))

\* RuleEvaluator.evaluate_rules_for_data
RECURSIVE evaluate_rules_for_data(_, _, _)
evaluate_rules_for_data(rules, data, fns) ==
    IF Len(rules) = 0 THEN <<>>
    ELSE Bind(evaluate_single(Head(rules), data, fns),
              LAMBDA r :
                LET p == IF r.ok THEN [rule_id |-> Head(rules).rule_id, value |-> r.val]
                         ELSE [rule_id |-> Head(rules).rule_id, value |-> BoolV(FALSE)]
                IN <<p>> \o evaluate_rules_for_data(Tail(rules), data, fns))

(***************************************************************************)
(* rules/optimizer.py                                                      *)
(***************************************************************************)
IsLit(n)      == n.kind = "Literal"
IsTrue(n)     == IsLit(n) /\ n.value = BoolV(TRUE)      \* value is True
IsFalse(n)    == IsLit(n) /\ n.value = BoolV(FALSE)     \* value is False
OkNode(n)     == [ok |-> TRUE, node |-> n, err |-> ""]
ErrNode(e)    == [ok |-> FALSE, node |-> Literal(None), err |-> e]
FoldLit(r)    == IF r.ok THEN OkNode(Literal(r.val)) ELSE ErrNode(r.err)

\* RuleOptimizer._evaluate_literal_binary_op
evaluate_literal_binary_op(operator, left, right, original_node) ==
    CASE operator \in {"=", "!=", ">", "<", ">=", "<=", "in", "not in"}
            -> FoldLit(get_binary_operation(operator, left.value, right.value))
      [] operator = "and" -> OkNode(Literal(BoolV(Truthy(left.value) /\ Truthy(right.value))))
      [] operator = "or"  -> OkNode(Literal(BoolV(Truthy(left.value) \/ Truthy(right.value))))
      [] OTHER -> OkNode(original_node)

RECURSIVE optimize_node(_)

\* RuleOptimizer._optimize_binary_op
optimize_binary_op(node) ==
    Bind(optimize_node(node.args[1]),
         LAMBDA lo :
           Bind(optimize_node(node.args[2]),
                LAMBDA ro :
                  LET left == lo.node
                      right == ro.node
                  IN IF ~lo.ok THEN lo
                     ELSE IF ~ro.ok THEN ro
                     ELSE IF IsLit(left) /\ IsLit(right)
                          THEN evaluate_literal_binary_op(node.op, left, right, node)
                     ELSE IF node.op = "and" /\ IsTrue(left) THEN OkNode(right)
                     ELSE IF node.op = "and" /\ IsFalse(left) THEN OkNode(Literal(BoolV(FALSE)))
                     ELSE IF node.op = "and" /\ IsTrue(right) THEN OkNode(left)
                     ELSE IF node.op = "and" /\ IsFalse(right) THEN OkNode(Literal(BoolV(FALSE)))
                     ELSE IF node.op = "or" /\ IsTrue(left) THEN OkNode(Literal(BoolV(TRUE)))
                     ELSE IF node.op = "or" /\ IsFalse(left) THEN OkNode(right)
                     ELSE IF node.op = "or" /\ IsTrue(right) THEN OkNode(Literal(BoolV(TRUE)))
                     ELSE IF node.op = "or" /\ IsFalse(right) THEN OkNode(left)
                     ELSE OkNode(BinaryOp(node.op, left, right))))

\* RuleOptimizer._optimize_unary_op
optimize_unary_op(node) ==
    Bind(optimize_node(node.args[1]),
         LAMBDA xo :
           LET operand == xo.node
           IN IF ~xo.ok THEN xo
              ELSE IF node.op = "not" /\ IsLit(operand) /\ operand.value.t = "bool"
                   THEN OkNode(Literal(BoolV(operand.value.v = 0)))
              ELSE IF node.op = "not" /\ operand.kind = "UnaryOp" /\ operand.op = "not"
                   THEN OkNode(operand.args[1])
              ELSE OkNode(UnaryOp(node.op, operand)))

\* RuleOptimizer._optimize_node
optimize_node(node) ==
    CASE node.kind = "BinaryOp" -> optimize_binary_op(node)
      [] node.kind = "UnaryOp"  -> optimize_unary_op(node)
      [] OTHER                  -> OkNode(node)

(***************************************************************************)
(* Compilation: rules/compiler.py RuleCompiler, runtime/engine.py          *)
(* RuleEngine.                                                             *)
(***************************************************************************)
BadText == [kind |-> "BadText", name |-> <<>>, op |-> "", value |-> None, args |-> <<>>]

\* parse_rule: a rule text is represented by the AST it denotes; BadText is a
\* text the parser rejects
parse_rule(rule) ==
    IF rule = BadText THEN ErrNode("RuleParseError") ELSE OkNode(rule)

\* RuleCompiler.compile_rule; addr is the number of hex digits in id(object)
compile_rule(rule_id, root, addr) ==
    [rule_id |-> rule_id, root |-> root, addr |-> addr]

\* len(str(rule)) for a CompiledRule, which defines neither rule_text nor
\* __str__: "<amino.rules.compiler.CompiledRule object at 0x...>"
ReprPrefixLen == 46
ReprLen(rule) == ReprPrefixLen + 2 + rule.addr

\* RuleEngine._estimate_rule_complexity: the text examined is str(rule); it
\* holds no " and ", " or " or "(" and three dots
estimate_rule_complexity(rule) ==
    1 + 0 * 2 + 0 * 2 + 0 * 3 + 3 * 1 + (ReprLen(rule) \div 20)

\* sorted(rules, key=self._estimate_rule_complexity): stable
RECURSIVE SortedInsert(_, _)
SortedInsert(s, x) ==
    IF Len(s) = 0 THEN <<x>>
    ELSE IF estimate_rule_complexity(Head(s)) <= estimate_rule_complexity(x)
         THEN <<Head(s)>> \o SortedInsert(Tail(s), x)
    ELSE <<x>> \o s

RECURSIVE SortedByComplexity(_)
SortedByComplexity(rules) ==
    IF Len(rules) = 0 THEN <<>>
    ELSE SortedInsert(SortedByComplexity(SubSeq(rules, 1, Len(rules) - 1)),
                      rules[Len(rules)])

DefaultOptions == [mode |-> "all", ordering_key |-> "", ordering_direction |-> "asc"]

\* the MatchOptions compile_rules builds from its match argument
MatchOptionsOf(match) ==
    IF match.given /\ match.option = "first"
    THEN [mode |-> "first", ordering_key |-> match.key, ordering_direction |-> match.ordering]
    ELSE DefaultOptions

\* RuleEngine._optimize_rule_order
optimize_rule_order(rules, opts) ==
    IF Len(rules) = 0 THEN rules
    ELSE IF opts.mode = "first" /\ opts.ordering_key # "" THEN rules
    ELSE IF opts.mode = "first" THEN SortedByComplexity(rules)
    ELSE rules

\* the parse / optimize / compile loop of RuleEngine.compile_rules
RECURSIVE CompileLoop(_, _)
CompileLoop(defs, addrs) ==
    IF Len(defs) = 0 THEN [ok |-> TRUE, rules |-> <<>>]
    ELSE LET d == Head(defs)
         IN Bind(parse_rule(d.rule),
                 LAMBDA p :
                   Bind(IF p.ok THEN optimize_node(p.node) ELSE p,
                        LAMBDA o :
                          Bind(CompileLoop(Tail(defs), Tail(addrs)),
                               LAMBDA rest : IF ~o.ok THEN [ok |-> FALSE, rules |-> <<>>]
                                             ELSE IF ~rest.ok THEN rest
                                             ELSE [ok |-> TRUE,
                                                   rules |-> <<compile_rule(d.id, o.node, Head(addrs))>> \o rest.rules])))

\* metadata stored for a rule definition
MetadataOf(d) == IF d.ordering = {} THEN <<>> ELSE [ordering |-> Min(d.ordering)]

NoRes   == [done |-> FALSE]
NoPairs == [done |-> FALSE]

(***************************************************************************)
(* Inputs of the evaluation specifications                                 *)
(***************************************************************************)
AddrDigits == {11, 12}     \* hex digits of an object address

VScore  == Variable(<<"score">>)
VActive == Variable(<<"active">>)
VCity   == Variable(<<"addr", "city">>)
LTrue   == Literal(BoolV(TRUE))
LFalse  == Literal(BoolV(FALSE))

Atoms == {LTrue, LFalse, VScore, VActive, VCity,
          FunctionCall("f", <<>>), FunctionCall("f", <<VScore>>)}

Cmps == {BinaryOp(">", VScore, Literal(IntV(0))),
         BinaryOp("=", VCity, Literal(StrV(1))),
         BinaryOp("in", VCity, Literal(ListV(<<StrV(1), StrV(2)>>))),
         BinaryOp("contains", VCity, Literal(StrV(1)))}

Operands == Atoms \cup Cmps

Asts == Operands
        \cup {BinaryOp(o, l, r) : o \in {"and", "or"}, l \in Operands, r \in Operands}
        \cup {UnaryOp("not", x) : x \in Operands}

DataSet == { <<>>,
             [score |-> IntV(1)],
             [score |-> IntV(0), active |-> BoolV(TRUE)],
             [score |-> StrV(1), active |-> BoolV(FALSE),
              addr |-> DictV([city |-> StrV(1)])] }

FnRegs == { <<>>, [f |-> "ret_true"], [f |-> "first_arg"], [f |-> "raises"] }

RulePool == { BinaryOp(">", VScore, Literal(IntV(0))),
              BinaryOp("and", VActive, BinaryOp("=", VCity, Literal(StrV(1)))),
              FunctionCall("f", <<VScore>>),
              BadText }

Matches == { [given |-> FALSE, option |-> "", key |-> "", ordering |-> "asc"],
             [given |-> TRUE, option |-> "all", key |-> "", ordering |-> "asc"],
             [given |-> TRUE, option |-> "first", key |-> "", ordering |-> "asc"],
             [given |-> TRUE, option |-> "first", key |-> "ordering", ordering |-> "desc"] }

\* rule definitions: ids are the positions in the list handed to compile_rules
DefLists == UNION { [1..n -> RulePool] : n \in 0..MaxRules }
DefsOf(texts) == [i \in 1..Len(texts) |-> [id |-> i, rule |-> texts[i], ordering |-> {i}]]

(***************************************************************************)
(* Initial values of each group of variables                               *)
(***************************************************************************)
EvalInit0 ==
    /\ crule = NoRule /\ crules = <<>> /\ options = DefaultOptions
    /\ supplied = <<>> /\ res = NoRes /\ pairs = NoPairs
    /\ rule_metadata = <<>> /\ everr = "" /\ mres = [done |-> FALSE]

OpsInit0 ==
    /\ by_token = <<>> /\ symbols = {} /\ keywords = {} /\ opret = [op |-> "none"]

ValInit0 ==
    /\ vmode = "loose" /\ vschema = <<>> /\ vdecision = <<>>
    /\ vret = [done |-> FALSE]

ParseInit0 ==
    /\ pin = <<>> /\ pout = [done |-> FALSE]

ShareInit0 ==
    /\ compiled = <<>>
    /\ dicts = <<>>

EngInit0 ==
    /\ frozen = FALSE /\ called = FALSE /\ functions = <<>> /\ types = <<>>
    /\ ret = [op |-> "none"]

(***************************************************************************)
(* SpecRule: RuleCompiler.compile_rule and CompiledRule.evaluate           *)
(***************************************************************************)
InitRule ==
    /\ EvalInit0 /\ OpsInit0 /\ ValInit0 /\ ParseInit0 /\ ShareInit0
    /\ frozen = FALSE /\ called = FALSE /\ types = <<>> /\ ret = [op |-> "none"]
    /\ functions \in FnRegs

\* RuleCompiler.compile_rule(rule_id, ast)
CompileRule(ast, addr) ==
    /\ crule' = compile_rule(1, ast, addr)
    /\ res' = NoRes
    /\ UNCHANGED <<crules, options, supplied, pairs, rule_metadata, everr, mres>>
    /\ UNCHANGED <<opsVars, valVars, engVars, parseVars, shareVars>>

\* CompiledRule.evaluate(data, function_registry)
Evaluate(data) ==
    /\ crule # NoRule
    /\ res' = [done |-> TRUE, data |-> data,
               out |-> CompiledRule_evaluate(crule, data, functions)]
    /\ UNCHANGED <<crule, crules, options, supplied, pairs, rule_metadata, everr, mres>>
    /\ UNCHANGED <<opsVars, valVars, engVars, parseVars, shareVars>>

NextRule ==
    \/ \E ast \in Asts, addr \in AddrDigits : CompileRule(ast, addr)
    \/ \E data \in DataSet : Evaluate(data)

SpecRule == InitRule /\ [][NextRule]_vars

(***************************************************************************)
(* SpecEval: RuleEngine.compile_rules and                                  *)
(* RuleEvaluator.evaluate_rules_for_data                                   *)
(***************************************************************************)
InitEval == InitRule

\* RuleEngine.compile_rules(rule_definitions, match)
CompileRules(defs, match, addrs) ==
    LET c == CompileLoop(defs, addrs)
        opts == MatchOptionsOf(match)
    IN /\ IF c.ok
          THEN /\ crules' = optimize_rule_order(c.rules, opts)
               /\ options' = opts
               /\ supplied' = c.rules
               /\ rule_metadata' = [i \in 1..Len(defs) |-> MetadataOf(defs[i])]
               /\ pairs' = NoPairs
               /\ everr' = ""
          ELSE /\ everr' = "RuleParseError"
               /\ UNCHANGED <<crules, options, supplied, rule_metadata, pairs>>
       /\ UNCHANGED <<crule, res, mres>>
       /\ UNCHANGED <<opsVars, valVars, engVars, parseVars, shareVars>>

\* RuleEvaluator.evaluate_rules_for_data(rules, data)
EvaluateRulesForData(data) ==
    /\ pairs' = [done |-> TRUE, data |-> data,
                 out |-> evaluate_rules_for_data(crules, data, functions)]
    /\ UNCHANGED <<crule, crules, options, supplied, res, rule_metadata, everr, mres>>
    /\ UNCHANGED <<opsVars, valVars, engVars, parseVars, shareVars>>

NextEval ==
    \/ \E texts \in DefLists, match \in Matches :
         \E addrs \in [1..Len(texts) -> AddrDigits] :
            CompileRules(DefsOf(texts), match, addrs)
    \/ \E data \in DataSet : EvaluateRulesForData(data)

SpecEval == InitEval /\ [][NextEval]_vars

(***************************************************************************)
(* C2  For every compiled rule and every decision record,                  *)
(* CompiledRule.evaluate returns a value and never raises: a missing       *)
(* field, an absent function or a failing host function gives false.       *)
(***************************************************************************)
C2_EvaluateNeverRaises ==
    res.done =>
        /\ res.out.ok
        /\ (~generate_evaluator(crule.root, res.data, functions).ok
              => res.out.val = BoolV(FALSE))

(***************************************************************************)
(* C3  `and` / `or` short-circuit: when the left operand is falsy (and) or *)
(* truthy (or), the right operand is not evaluated and the rule's result   *)
(* is the left operand's result, whatever the right operand would do.      *)
(***************************************************************************)
LeftDecides(root, data) ==
    /\ root.kind = "BinaryOp" /\ root.op \in {"and", "or"}
    /\ LET l == generate_evaluator(root.args[1], data, functions)
       IN l.ok /\ (root.op = "and" <=> ~Truthy(l.val))

C3_ShortCircuit ==
    (res.done /\ LeftDecides(crule.root, res.data)) =>
        res.out = generate_evaluator(crule.root.args[1], res.data, functions)

C3_Witness ==
    /\ res.done /\ LeftDecides(crule.root, res.data)
    /\ ~generate_evaluator(crule.root.args[2], res.data, functions).ok
    /\ res.out.ok

(***************************************************************************)
(* C4  Evaluating one decision hands the matcher exactly one               *)
(* (rule_id, value) pair per supplied rule, in the order the rules were    *)
(* supplied, for every match configuration; a failing rule contributes a   *)
(* falsy pair and the other pairs are what those rules evaluate to.        *)
(***************************************************************************)
PairOf(rule, data) ==
    LET r == evaluate_single(rule, data, functions)
    IN [rule_id |-> rule.rule_id, value |-> IF r.ok THEN r.val ELSE BoolV(FALSE)]

C4_PairsInSuppliedOrder ==
    pairs.done =>
        /\ Len(pairs.out) = Len(supplied)
        /\ \A i \in 1..Len(supplied) : pairs.out[i] = PairOf(supplied[i], pairs.data)

(***************************************************************************)
(* runtime/matcher.py, runtime/compiled_rules.py                           *)
(***************************************************************************)
MatchResult(id, results) == [id |-> id, results |-> results, metadata |-> None]

\* [rule_id for rule_id, matched in rule_matches if matched]
RECURSIVE matched_rules(_)
matched_rules(rule_matches) ==
    IF Len(rule_matches) = 0 THEN <<>>
    ELSE (IF Truthy(Head(rule_matches).value)
          THEN <<Head(rule_matches).rule_id>> ELSE <<>>)
         \o matched_rules(Tail(rule_matches))

\* get_ordering_value: metadata.get(rule_id, {}).get(key, float('inf')); the
\* pair <<1, 0>> stands for inf and <<0, n>> for the number n
get_ordering_value(opts, metadata, rule_id) ==
    LET meta == IF rule_id \in DOMAIN metadata THEN metadata[rule_id] ELSE <<>>
    IN IF opts.ordering_key \in DOMAIN meta
       THEN <<0, meta[opts.ordering_key]>> ELSE <<1, 0>>

KeyLess(a, b) == a[1] < b[1] \/ (a[1] = b[1] /\ a[2] < b[2])

\* sorted(..., reverse=...) keeps equal keys in their original order: x goes
\* before the first element that must come strictly after it
RECURSIVE InsertByKey(_, _, _, _, _)
InsertByKey(opts, metadata, reverse, sorted, x) ==
    IF Len(sorted) = 0 THEN <<x>>
    ELSE LET kx == get_ordering_value(opts, metadata, x)
             kh == get_ordering_value(opts, metadata, Head(sorted))
             after == IF reverse THEN KeyLess(kh, kx) ELSE KeyLess(kx, kh)
         IN IF after THEN <<x>> \o sorted
            ELSE <<Head(sorted)>> \o InsertByKey(opts, metadata, reverse, Tail(sorted), x)

RECURSIVE SortByKey(_, _, _, _)
SortByKey(opts, metadata, reverse, rule_ids) ==
    IF Len(rule_ids) = 0 THEN <<>>
    ELSE InsertByKey(opts, metadata, reverse,
                     SortByKey(opts, metadata, reverse,
                               SubSeq(rule_ids, 1, Len(rule_ids) - 1)),
                     rule_ids[Len(rule_ids)])

\* a sort that reverses the ascending result for "desc"
sort_rules_reversed(opts, rule_ids, metadata) ==
    IF opts.ordering_key = "" THEN rule_ids
    ELSE Bind(SortByKey(opts, metadata, FALSE, rule_ids),
              LAMBDA asc : IF opts.ordering_direction = "desc"
                           THEN [i \in 1..Len(asc) |-> asc[Len(asc) + 1 - i]]
                           ELSE asc)

\* RuleMatcher._sort_rules
sort_rules(opts, rule_ids, metadata) ==
    IF opts.ordering_key = "" THEN rule_ids
    ELSE SortByKey(opts, metadata, opts.ordering_direction = "desc", rule_ids)

\* a matcher whose ALL mode returns every rule id
process_matches_unfiltered(opts, data_id, rule_matches, rule_metadata_) ==
    [raised |-> "",
     result |-> MatchResult(data_id,
                            [i \in 1..Len(rule_matches) |-> rule_matches[i].rule_id])]

\* RuleMatcher.process_matches; the BEST branch calls process_matches with
\* the same arguments and options, which ends in RecursionError
process_matches(opts, data_id, rule_matches, rule_metadata_) ==
    Bind(matched_rules(rule_matches),
         LAMBDA m : IF opts.mode = "all" THEN [raised |-> "", result |-> MatchResult(data_id, m)]
                    ELSE IF opts.mode = "first"
                    THEN (IF Len(m) = 0 THEN [raised |-> "", result |-> MatchResult(data_id, <<>>)]
                          ELSE IF opts.ordering_key # ""
                          THEN [raised |-> "",
                                result |-> MatchResult(data_id,
                                              <<sort_rules(opts, m, rule_metadata_)[1]>>)]
                          ELSE [raised |-> "", result |-> MatchResult(data_id, <<m[1]>>)])
                    ELSE [raised |-> "RecursionError", result |-> None])

\* dict.get("id") of a decision
ItemId(item) == IF "id" \in DOMAIN item THEN item["id"] ELSE None

\* CompiledRules.eval(data)
RECURSIVE CompiledRules_eval(_, _, _, _, _)
CompiledRules_eval(rules, opts, metadata, fns, data) ==
    IF Len(data) = 0 THEN [raised |-> "", results |-> <<>>]
    ELSE LET item == Head(data)
         IN IF ItemId(item) = None THEN [raised |-> "ValueError", results |-> <<>>]
            ELSE Bind(process_matches(opts, ItemId(item),
                          evaluate_rules_for_data(rules, item, fns), metadata),
                      LAMBDA r :
                        Bind(CompiledRules_eval(rules, opts, metadata, fns, Tail(data)),
                             LAMBDA rest : IF r.raised # "" THEN [raised |-> r.raised, results |-> <<>>]
                                           ELSE IF rest.raised # "" THEN rest
                                           ELSE [raised |-> "", results |-> <<r.result>> \o rest.results]))

\* CompiledRules.eval_single(data)
CompiledRules_eval_single(rules, opts, metadata, fns, item) ==
    Bind(CompiledRules_eval(rules, opts, metadata, fns, <<item>>),
         LAMBDA r : IF r.raised # "" THEN [raised |-> r.raised, result |-> None]
                    ELSE [raised |-> "", result |-> r.results[1]])

(***************************************************************************)
(* operators/registry.py, operators/standard.py                            *)
(***************************************************************************)
\* OperatorDef; symbol / keyword hold "" for None
OperatorDef(symbol, keyword, kind, fn, binding_power, input_types) ==
    [symbol |-> symbol, keyword |-> keyword, kind |-> kind, fn |-> fn,
     binding_power |-> binding_power, associativity |-> "left",
     input_types |-> input_types, return_type |-> "Bool"]

\* OperatorDef.token
token(op) == IF op.symbol # "" THEN op.symbol ELSE op.keyword

\* self._by_token.get(token, [])
Candidates(reg, tok) == IF tok \in DOMAIN reg THEN reg[tok] ELSE <<>>

Conflicts(reg, op) ==
    \E i \in 1..Len(Candidates(reg, token(op))) :
        Candidates(reg, token(op))[i].input_types = op.input_types

\* a register that accepts a definition whatever is already registered
register_unchecked(reg, op) ==
    [ok |-> TRUE,
     by_token |-> [t \in DOMAIN reg.by_token \cup {token(op)} |->
                     IF t = token(op) THEN Append(Candidates(reg.by_token, t), op)
                     ELSE reg.by_token[t]],
     symbols |-> IF op.symbol # "" THEN reg.symbols \cup {op.symbol} ELSE reg.symbols,
     keywords |-> IF op.symbol # "" THEN reg.keywords ELSE reg.keywords \cup {op.keyword}]

\* OperatorRegistry.register on the registry reg = (by_token, symbols, keywords)
register(reg, op) ==
    IF Conflicts(reg.by_token, op)
    THEN [ok |-> FALSE, by_token |-> reg.by_token, symbols |-> reg.symbols,
          keywords |-> reg.keywords]
    ELSE [ok |-> TRUE,
          by_token |-> [t \in DOMAIN reg.by_token \cup {token(op)} |->
                          IF t = token(op) THEN Append(Candidates(reg.by_token, t), op)
                          ELSE reg.by_token[t]],
          symbols |-> IF op.symbol # "" THEN reg.symbols \cup {op.symbol} ELSE reg.symbols,
          keywords |-> IF op.symbol # "" THEN reg.keywords
                       ELSE reg.keywords \cup {op.keyword}]

\* all(e == "*" or e == a for e, a in zip(expected, actual)) with equal lengths
WildcardMatch(expected, actual) ==
    /\ Len(expected) = Len(actual)
    /\ \A k \in 1..Len(expected) : expected[k] = "*" \/ expected[k] = actual[k]

\* a lookup that takes the first definition matching exactly or by wildcard
lookup_by_types_single_pass(reg, tok, input_types) ==
    LET c == Candidates(reg, tok)
        w == {i \in 1..Len(c) : c[i].input_types = input_types
                                  \/ WildcardMatch(c[i].input_types, input_types)}
    IN IF w # {} THEN Min(w)
       ELSE IF Len(c) = 1 THEN 1 ELSE 0

\* a lookup whose last resort returns the first candidate of any non-empty list
lookup_by_types_any_fallback(reg, tok, input_types) ==
    LET c == Candidates(reg, tok)
        x == {i \in 1..Len(c) : c[i].input_types = input_types}
        w == {i \in 1..Len(c) : WildcardMatch(c[i].input_types, input_types)}
    IN IF x # {} THEN Min(x)
       ELSE IF w # {} THEN Min(w)
       ELSE IF Len(c) >= 1 THEN 1 ELSE 0

\* OperatorRegistry.lookup_by_types: the index of the definition returned
\* among the token's candidates, 0 for None
lookup_by_types(reg, tok, input_types) ==
    LET c == Candidates(reg, tok)
        x == {i \in 1..Len(c) : c[i].input_types = input_types}
        w == {i \in 1..Len(c) : WildcardMatch(c[i].input_types, input_types)}
    IN IF x # {} THEN Min(x)
       ELSE IF w # {} THEN Min(w)
       ELSE IF Len(c) = 1 THEN 1 ELSE 0

\* a lookup that answers with the definition registered last
get_binding_power_last(reg, tok) ==
    IF Len(Candidates(reg, tok)) = 0 THEN None
    ELSE IntV(Candidates(reg, tok)[Len(Candidates(reg, tok))].binding_power)

\* OperatorRegistry.get_binding_power(token)
get_binding_power(reg, tok) ==
    IF Len(Candidates(reg, tok)) = 0 THEN None
    ELSE IntV(Candidates(reg, tok)[1].binding_power)

\* operators/standard.py _ALL_OPS
ALL_OPS == <<
    OperatorDef("", "or", "infix", "None", 10, <<"Bool", "Bool">>),
    OperatorDef("", "and", "infix", "None", 20, <<"Bool", "Bool">>),
    OperatorDef("", "not", "prefix", "None", 30, <<"Bool">>),
    OperatorDef("", "in", "infix", "in", 40, <<"*", "List">>),
    OperatorDef("", "not in", "infix", "not in", 40, <<"*", "List">>),
    OperatorDef("=", "", "infix", "eq", 40, <<"*", "*">>),
    OperatorDef("!=", "", "infix", "ne", 40, <<"*", "*">>),
    OperatorDef(">", "", "infix", "gt", 40, <<"*", "*">>),
    OperatorDef("<", "", "infix", "lt", 40, <<"*", "*">>),
    OperatorDef(">=", "", "infix", "ge", 40, <<"*", "*">>),
    OperatorDef("<=", "", "infix", "le", 40, <<"*", "*">>),
    OperatorDef("", "contains", "infix", "contains", 40, <<"Str", "Str">>) >>

ALWAYS == {"or", "and", "not"}

EmptyRegistry == [ok |-> TRUE, by_token |-> <<>>, symbols |-> {}, keywords |-> {}]

RECURSIVE RegisterAll(_, _)
RegisterAll(reg, ops) ==
    IF Len(ops) = 0 THEN reg ELSE RegisterAll(register(reg, Head(ops)), Tail(ops))

\* build_operator_registry(preset); preset.name is "standard", "minimal" or
\* "list", and preset.list the tokens of an explicit list
build_operator_registry(preset) ==
    LET enabled == IF preset.name = "standard"
                   THEN {token(ALL_OPS[i]) : i \in 1..Len(ALL_OPS)}
                   ELSE IF preset.name = "minimal" THEN ALWAYS
                   ELSE preset.list \cup ALWAYS
        keep == {i \in 1..Len(ALL_OPS) : token(ALL_OPS[i]) \in enabled}
        ops == [k \in 1..Cardinality(keep) |->
                  ALL_OPS[CHOOSE i \in keep : Cardinality({j \in keep : j < i}) = k - 1]]
    IN RegisterAll(EmptyRegistry, ops)

\* led of the rule parser: resolve the infix operator tok for operand types
\* (ltype, rtype); no definition means RuleParseError
led(reg, tok, ltype, rtype) ==
    IF lookup_by_types(reg, tok, <<ltype, rtype>>) = 0 THEN "RuleParseError" ELSE ""

(***************************************************************************)
(* SpecOps: the operator registry                                          *)
(***************************************************************************)
Presets == {[name |-> "standard", list |-> {}], [name |-> "minimal", list |-> {}],
            [name |-> "list", list |-> {"=", "in"}]}
HostFns == {"h1"}
RegTokens == {"in", "within"}
RegTypes == {<<"*", "List">>, <<"Str", "List">>, <<"Str", "Str">>, <<"*", "*">>}
TypeNames == {"Int", "Str", "List"}
LookupTypes == RegTypes \cup {<<"Int", "List">>, <<"Int", "Int">>}
LedTokens == RegTokens \cup {"contains", "="}

\* the tokens of the standard preset and the host token
PowerTokens == {token(ALL_OPS[i]) : i \in 1..Len(ALL_OPS)} \cup RegTokens

\* operator definitions a host may register
RegOps ==
    {OperatorDef("", t, "infix", f, 40, ty) : t \in RegTokens, f \in HostFns, ty \in RegTypes}
    \cup {OperatorDef("in", "", "infix", "h1", 50, <<"Str", "Str">>)}

\* number of host-registered definitions in the registry
HostDefs(reg) ==
    LET pairsOf == {<<t, i>> \in (DOMAIN reg) \X (1..(Len(ALL_OPS) + MaxRegs + 1)) :
                      i <= Len(reg[t]) /\ reg[t][i].fn \in HostFns}
    IN Cardinality(pairsOf)

InitOps ==
    /\ EvalInit0 /\ ValInit0 /\ EngInit0 /\ ParseInit0 /\ ShareInit0
    /\ \E preset \in Presets :
         LET r == build_operator_registry(preset)
         IN by_token = r.by_token /\ symbols = r.symbols /\ keywords = r.keywords
    /\ opret = [op |-> "none"]

\* OperatorRegistry.register(op)
Register(op) ==
    /\ HostDefs(by_token) < MaxRegs
    /\ LET r == register([by_token |-> by_token, symbols |-> symbols,
                          keywords |-> keywords], op)
       IN /\ by_token' = r.by_token /\ symbols' = r.symbols /\ keywords' = r.keywords
          /\ opret' = [op |-> "register", arg |-> op,
                       err |-> IF r.ok THEN "" ELSE "OperatorConflictError"]
    /\ UNCHANGED <<evalVars, valVars, engVars, parseVars, shareVars>>

\* OperatorRegistry.lookup_by_types(token, input_types)
LookupByTypes(tok, ty) ==
    /\ opret' = [op |-> "lookup_by_types", tok |-> tok, types |-> ty,
                 idx |-> lookup_by_types(by_token, tok, ty)]
    /\ UNCHANGED <<by_token, symbols, keywords>>
    /\ UNCHANGED <<evalVars, valVars, engVars, parseVars, shareVars>>

\* the parser's led on an infix operator token
Led(tok, ltype, rtype) ==
    /\ tok \in symbols \cup keywords
    /\ opret' = [op |-> "led", tok |-> tok, types |-> <<ltype, rtype>>,
                 err |-> led(by_token, tok, ltype, rtype)]
    /\ UNCHANGED <<by_token, symbols, keywords>>
    /\ UNCHANGED <<evalVars, valVars, engVars, parseVars, shareVars>>

\* OperatorRegistry.get_binding_power(token)
GetBindingPower(tok) ==
    /\ opret' = [op |-> "get_binding_power", tok |-> tok,
                 val |-> get_binding_power(by_token, tok)]
    /\ UNCHANGED <<by_token, symbols, keywords>>
    /\ UNCHANGED <<evalVars, valVars, engVars, parseVars, shareVars>>

NextOps ==
    \/ \E op \in RegOps : Register(op)
    \/ \E tok \in PowerTokens : GetBindingPower(tok)
    \/ \E tok \in RegTokens, ty \in LookupTypes : LookupByTypes(tok, ty)
    \/ \E tok \in LedTokens, l \in TypeNames, r \in TypeNames : Led(tok, l, r)

SpecOps == InitOps /\ [][NextOps]_vars

(***************************************************************************)
(* C5  Registering an operator whose token and operand-type tuple both     *)
(* equal those of a definition already registered raises                   *)
(* OperatorConflictError and leaves the definitions, the symbols and the   *)
(* keywords unchanged; the same token with another tuple is accepted and   *)
(* appended to the token's definitions.                                    *)
(***************************************************************************)
C5_Step ==
    (opret'.op = "register") =>
        LET op == opret'.arg
            old == Candidates(by_token, token(op))
        IN IF \E i \in 1..Len(old) : old[i].input_types = op.input_types
           THEN /\ opret'.err = "OperatorConflictError"
                /\ UNCHANGED <<by_token, symbols, keywords>>
           ELSE /\ opret'.err = ""
                /\ Candidates(by_token', token(op)) = Append(old, op)
                /\ \A t \in DOMAIN by_token : t # token(op) => by_token'[t] = by_token[t]

C5_DuplicateRejected == [][C5_Step]_vars

\* a registration was refused for a token that holds two definitions with
\* different operand-type tuples
C5_Witness ==
    /\ opret.op = "register" /\ opret.err = "OperatorConflictError"
    /\ Len(Candidates(by_token, token(opret.arg))) >= 2

(***************************************************************************)
(* C6  For every definition held under token t with operand types T,       *)
(* lookup_by_types(t, T) is that definition, even when an earlier          *)
(* definition under t matches T by wildcard; and a lookup with no exact    *)
(* definition but a wildcard one returns a wildcard definition.            *)
(***************************************************************************)
HasExact(reg, tok, ty) ==
    \E i \in 1..Len(Candidates(reg, tok)) : Candidates(reg, tok)[i].input_types = ty

HasWildcard(reg, tok, ty) ==
    \E i \in 1..Len(Candidates(reg, tok)) :
        WildcardMatch(Candidates(reg, tok)[i].input_types, ty)

C6_LookupReturnsRegistered ==
    /\ \A t \in DOMAIN by_token : \A i \in 1..Len(by_token[t]) :
          lookup_by_types(by_token, t, by_token[t][i].input_types) = i
    /\ (/\ opret.op = "lookup_by_types"
        /\ ~HasExact(by_token, opret.tok, opret.types)
        /\ HasWildcard(by_token, opret.tok, opret.types))
         => /\ opret.idx # 0
            /\ WildcardMatch(by_token[opret.tok][opret.idx].input_types, opret.types)

\* a lookup returned the second definition of a token whose first
\* definition matches the same tuple by wildcard
C6_Witness ==
    /\ opret.op = "lookup_by_types"
    /\ opret.idx = 2
    /\ by_token[opret.tok][2].input_types = opret.types
    /\ WildcardMatch(by_token[opret.tok][1].input_types, opret.types)

BASE_TYPES == {"Int", "Float", "Str", "Bool"}

\* a type check that lets a bool pass as Int / Float
check_type_bool_is_int(value, type_name) ==
    CASE type_name = "Float" -> value.t \in {"int", "float", "bool"}
      [] type_name = "Int"   -> value.t \in {"int", "bool"}
      [] type_name = "Str"   -> value.t = "str"
      [] type_name = "Bool"  -> value.t = "bool"
      [] OTHER               -> TRUE

\* _check_type
check_type(value, type_name) ==
    CASE type_name = "Float" -> value.t \in {"int", "float"}
      [] type_name = "Int"   -> value.t = "int"
      [] type_name = "Str"   -> value.t = "str"
      [] type_name = "Bool"  -> value.t = "bool"
      [] OTHER               -> TRUE

\* len(value)
PyLen(value) ==
    CASE value.t = "str"  -> Ok(IntV(StrLen(value.v)))
      [] value.t = "list" -> Ok(IntV(Len(value.items)))
      [] value.t = "dict" -> Ok(IntV(Cardinality(DOMAIN value.m)))
      [] OTHER            -> Raise("TypeError")

\* re.fullmatch(pattern, value): the pattern "[A-Z]{2}" matches "CA" and
\* "NY"; the other texts of the model hold no metacharacter and match
\* themselves
FullMatch(pattern, value) ==
    IF value.t # "str" \/ pattern.t # "str" THEN Raise("TypeError")
    ELSE Ok(BoolV(IF pattern.v = 3 THEN value.v \in {1, 2} ELSE value.v = pattern.v))

\* len(value) != len(set(value)); the strings of the model have no repeated
\* character
HasDuplicates(value) ==
    CASE value.t = "str"  -> Ok(BoolV(FALSE))
      [] value.t = "list" ->
            (IF \E i \in 1..Len(value.items) : value.items[i].t \in {"list", "dict"}
             THEN Raise("TypeError")
             ELSE Ok(BoolV(\E i, j \in 1..Len(value.items) :
                              i < j /\ PyEq(value.items[i], value.items[j]))))
      [] OTHER            -> Raise("TypeError")

\* the test one constraint key applies: ok = FALSE when it raises, else
\* val = True when the key is violated
ConstraintTest(key, value, c) ==
    Bind(PyLen(value),
         LAMBDA len :
           Bind(IF len.ok THEN PyLt(len.val, c) ELSE len,
                LAMBDA lenLt :
                  Bind(IF len.ok THEN PyLt(c, len.val) ELSE len,
                       LAMBDA lenGt : CASE key = "min"          -> PyLt(value, c)
                                        [] key = "max"          -> PyLt(c, value)
                                        [] key = "exclusiveMin" -> PyLe(value, c)
                                        [] key = "exclusiveMax" -> PyLe(c, value)
                                        [] key = "minLength"    -> lenLt
                                        [] key = "maxLength"    -> lenGt
                                        [] key = "exactLength"  -> (IF len.ok THEN Ok(BoolV(~PyEq(len.val, c))) ELSE len)
                                        [] key = "pattern"      -> Negate(FullMatch(c, value))
                                        [] key = "oneOf"        -> Negate(PyIn(value, c))
                                        [] key = "const"        -> Ok(BoolV(~PyEq(value, c)))
                                        [] key = "minItems"     -> lenLt
                                        [] key = "maxItems"     -> lenGt
                                        [] key = "unique"       -> (IF Truthy(c) THEN HasDuplicates(value)
                                                                    ELSE Ok(BoolV(FALSE)))
                                        [] OTHER                -> Ok(BoolV(FALSE)))))

\* _check_constraints: constraints is the list of (key, value) items in dict
\* order; the result is "" for None, "violation", or "TypeError" when a
\* comparison raises
RECURSIVE check_constraints(_, _)
check_constraints(value, constraints) ==
    IF Len(constraints) = 0 THEN ""
    ELSE Bind(ConstraintTest(Head(constraints).key, value, Head(constraints).val),
              LAMBDA t : IF ~t.ok THEN "TypeError"
                         ELSE IF t.val.v = 1 THEN "violation"
                         ELSE check_constraints(value, Tail(constraints)))

\* a loop body that keeps a required field holding None
FieldCheck_null_kept(f, decision) ==
    IF f.name \notin DOMAIN decision
    THEN (IF f.optional THEN "skip" ELSE "missing")
    ELSE LET value == decision[f.name]
         IN IF value = None THEN (IF f.optional THEN "skip" ELSE "keep")
            ELSE IF ~check_type(value, f.type_name) THEN "type"
            ELSE IF Len(f.constraints) = 0 THEN "keep"
            ELSE Bind(check_constraints(value, f.constraints),
                      LAMBDA violation : IF violation = "TypeError" THEN "TypeError"
                                         ELSE IF violation = "violation" THEN "constraint"
                                         ELSE "keep")

\* the body of the loop of DecisionValidator.validate for one field: what
\* the field comes to
FieldCheck(f, decision) ==
    IF f.name \notin DOMAIN decision
    THEN (IF f.optional THEN "skip" ELSE "missing")
    ELSE LET value == decision[f.name]
         IN IF value = None THEN (IF f.optional THEN "skip" ELSE "null")
            ELSE IF ~check_type(value, f.type_name) THEN "type"
            ELSE IF Len(f.constraints) = 0 THEN "keep"
            ELSE Bind(check_constraints(value, f.constraints),
                      LAMBDA violation : IF violation = "TypeError" THEN "TypeError"
                                         ELSE IF violation = "violation" THEN "constraint"
                                         ELSE "keep")

NoRecord == [t |-> "none"]

\* the field loop of DecisionValidator.validate from field i on
RECURSIVE ValidateLoop(_, _, _, _, _, _)
ValidateLoop(mode, fields, i, decision, cleaned, warnings) ==
    IF i > Len(fields)
    THEN [raised |-> "", field |-> "", cleaned |-> cleaned, warnings |-> warnings]
    ELSE LET f == fields[i]
         IN Bind(FieldCheck(f, decision),
                 LAMBDA c : IF c = "skip"
                            THEN ValidateLoop(mode, fields, i + 1, decision, cleaned, warnings)
                            ELSE IF c = "keep"
                            THEN ValidateLoop(mode, fields, i + 1, decision,
                                              [k \in DOMAIN cleaned \cup {f.name} |->
                                                  IF k = f.name THEN decision[f.name] ELSE cleaned[k]],
                                              warnings)
                            ELSE IF c = "TypeError"
                            THEN [raised |-> "TypeError", field |-> "", cleaned |-> NoRecord,
                                  warnings |-> <<>>]
                            ELSE IF mode = "strict"
                            THEN [raised |-> "DecisionValidationError", field |-> f.name,
                                  cleaned |-> NoRecord, warnings |-> <<>>]
                            ELSE ValidateLoop(mode, fields, i + 1, decision, cleaned,
                                              Append(warnings, [field |-> f.name, why |-> c])))

FieldNames(fields) == {fields[i].name : i \in 1..Len(fields)}

\* a pass-through that copies nothing
pass_through_none(cleaned, fields, decision) == cleaned

\* the pass-through of keys the schema does not name
pass_through(cleaned, fields, decision) ==
    LET extra == {k \in DOMAIN decision : k \notin DOMAIN cleaned /\ k \notin FieldNames(fields)}
    IN [k \in DOMAIN cleaned \cup extra |-> IF k \in extra THEN decision[k] ELSE cleaned[k]]

\* DecisionValidator.validate
validate(mode, fields, decision) ==
    Bind(ValidateLoop(mode, fields, 1, decision, <<>>, <<>>),
         LAMBDA r : IF r.raised # "" THEN r
                    ELSE [raised |-> "", field |-> "",
                          cleaned |-> pass_through(r.cleaned, fields, decision),
                          warnings |-> r.warnings])

\* the caller's mapping after a validate that cleans it in place
decision_after_validate_in_place(mode, fields, decision) ==
    Bind(validate(mode, fields, decision),
         LAMBDA r : IF r.raised # "" THEN decision ELSE r.cleaned)

\* the caller's mapping after validate: the body reads it (decision.get,
\* `in`, decision.items()) and assigns only into cleaned and warnings
decision_after_validate(mode, fields, decision) == decision

\* the object validate returns as cleaned: `cleaned = {}`, a new dict
cleaned_object == "new dict"

\* the caller's item after CompiledRules.eval([item]): item.get("id") and
\* the evaluator closures only read it
item_after_eval(rules, opts, metadata, fns, item) == item

(***************************************************************************)
(* SpecValidate: a DecisionValidator built over a schema and a mode, then  *)
(* validate called on decisions.                                           *)
(***************************************************************************)
FieldDefinition(name, type_name, optional, constraints) ==
    [name |-> name, type_name |-> type_name, optional |-> optional,
     constraints |-> constraints]

Constraint(key, val) == [key |-> key, val |-> val]

\* age: Int {min: 1, max: 2}      age: Int?
\* state: Str {pattern: "[A-Z]{2}", oneOf: ["CA"]}      state: email
\* rate: Float? {exclusiveMin: 0}
FieldPool ==
    { FieldDefinition("age", "Int", FALSE,
                      <<Constraint("min", IntV(1)), Constraint("max", IntV(2))>>),
      FieldDefinition("age", "Int", TRUE, <<>>),
      FieldDefinition("state", "Str", FALSE,
                      <<Constraint("pattern", StrV(3)),
                        Constraint("oneOf", ListV(<<StrV(1)>>))>>),
      FieldDefinition("state", "email", FALSE, <<>>),
      FieldDefinition("rate", "Float", TRUE, <<Constraint("exclusiveMin", IntV(0))>>) }

Schemas ==
    { fs \in UNION {[1..n -> FieldPool] : n \in 1..MaxFields} :
         \A i, j \in 1..Len(fs) : i # j => fs[i].name # fs[j].name }

DecisionKeys == {"age", "state", "rate", "id"}

DecisionValues == {None, IntV(0), IntV(2), BoolV(TRUE), StrV(1), StrV(2)}

Decisions == UNION {[ks -> DecisionValues] : ks \in SUBSET DecisionKeys}

NoVret == [done |-> FALSE]

\* the compiled rules `age > 0` and `state = "CA"`
ValidateRules ==
    <<compile_rule(1, BinaryOp(">", Variable(<<"age">>), Literal(IntV(0))), 12),
      compile_rule(2, BinaryOp("=", Variable(<<"state">>), Literal(StrV(1))), 12)>>

InitValidate ==
    /\ OpsInit0 /\ EngInit0 /\ ParseInit0 /\ ShareInit0
    /\ crule = NoRule /\ crules = ValidateRules /\ options = DefaultOptions
    /\ supplied = <<>> /\ res = NoRes /\ pairs = NoPairs
    /\ rule_metadata = <<>> /\ everr = "" /\ mres = [done |-> FALSE]
    /\ vmode \in {"strict", "loose"}
    /\ vschema \in Schemas
    /\ vdecision \in Decisions
    /\ vret = NoVret

Validate ==
    /\ ~vret.done
    /\ vret' = [done |-> TRUE, decision |-> vdecision,
                out |-> validate(vmode, vschema, vdecision),
                cleaned_is |-> cleaned_object]
    /\ vdecision' = decision_after_validate(vmode, vschema, vdecision)
    /\ UNCHANGED <<vmode, vschema, evalVars, opsVars, engVars, parseVars, shareVars>>

\* CompiledRules.eval_single(decision)
EvalDecision ==
    /\ ~mres.done
    /\ mres' = [done |-> TRUE, op |-> "eval_single", data |-> vdecision,
                out |-> CompiledRules_eval_single(crules, options, rule_metadata,
                                                  functions, vdecision)]
    /\ vdecision' = item_after_eval(crules, options, rule_metadata, functions, vdecision)
    /\ UNCHANGED <<crule, crules, options, supplied, res, pairs, rule_metadata, everr>>
    /\ UNCHANGED <<vmode, vschema, vret, opsVars, engVars, parseVars, shareVars>>

NextValidate == Validate \/ EvalDecision

SpecValidate == InitValidate /\ [][NextValidate]_vars

\* the declared base type of a field admits the value (a field of a type
\* that is not one of the four base types has no base-type check here)
OfDeclaredBaseType(f, value) ==
    \/ f.type_name = "Int" /\ value.t = "int"
    \/ f.type_name = "Float" /\ value.t \in {"int", "float"}
    \/ f.type_name = "Str" /\ value.t = "str"
    \/ f.type_name = "Bool" /\ value.t = "bool"
    \/ f.type_name \notin BASE_TYPES

Present(f, d) == f.name \in DOMAIN d /\ d[f.name] # None

\* required-and-missing, required-and-null, wrong base type or constraint
\* violation
Failing(f, d) ==
    \/ ~f.optional /\ f.name \notin DOMAIN d
    \/ ~f.optional /\ f.name \in DOMAIN d /\ d[f.name] = None
    \/ Present(f, d) /\ ~OfDeclaredBaseType(f, d[f.name])
    \/ Present(f, d) /\ OfDeclaredBaseType(f, d[f.name])
         /\ check_constraints(d[f.name], f.constraints) = "violation"

FailingIdx(fields, d) == {i \in 1..Len(fields) : Failing(fields[i], d)}

\* C8: in strict mode validate raises DecisionValidationError exactly when
\* some schema field is required-and-missing, required-and-null, of the
\* wrong base type or violates a constraint; the error names the first such
\* field in declaration order and no cleaned record comes back
C8_StrictRaisesOnFirstFailure ==
    (vmode = "strict" /\ vret.done) =>
        LET bad == FailingIdx(vschema, vret.decision)
        IN /\ (vret.out.raised = "DecisionValidationError") <=> (bad # {})
           /\ bad # {} => /\ vret.out.field = vschema[Min(bad)].name
                          /\ vret.out.cleaned = NoRecord
           /\ bad = {} => vret.out.raised = ""

\* strict mode raised on the second field of the schema after the first
\* one passed
C8_Witness ==
    /\ vmode = "strict" /\ vret.done
    /\ Len(vschema) = 2
    /\ vret.out.raised = "DecisionValidationError"
    /\ Cardinality(FailingIdx(vschema, vret.decision)) = 1
    /\ vret.out.field = vschema[2].name

\* C9: in loose mode validate never raises DecisionValidationError; a schema
\* field is in the cleaned record exactly when it is present, non-null, of
\* the declared base type and within its constraints; each failing field
\* adds exactly one warning and absent or null optional fields add none
C9_LooseDropsAndWarns ==
    (vmode = "loose" /\ vret.done) =>
        LET d == vret.decision
            bad == FailingIdx(vschema, d)
        IN /\ vret.out.raised = ""
           /\ \A i \in 1..Len(vschema) :
                 (vschema[i].name \in DOMAIN vret.out.cleaned)
                    <=> (/\ Present(vschema[i], d)
                         /\ OfDeclaredBaseType(vschema[i], d[vschema[i].name])
                         /\ check_constraints(d[vschema[i].name],
                                              vschema[i].constraints) = "")
           /\ Len(vret.out.warnings) = Cardinality(bad)
           /\ \A i \in 1..Len(vschema) :
                 Cardinality({w \in 1..Len(vret.out.warnings) :
                                 vret.out.warnings[w].field = vschema[i].name})
                    = IF i \in bad THEN 1 ELSE 0
           /\ ((\A i \in 1..Len(vschema) :
                   vschema[i].optional /\ ~Present(vschema[i], d))
               /\ DOMAIN d \subseteq FieldNames(vschema))
                 => vret.out.cleaned = <<>>

\* loose mode dropped one field with a warning and kept another
C9_Witness ==
    /\ vmode = "loose" /\ vret.done
    /\ Len(vschema) = 2
    /\ Len(vret.out.warnings) = 1
    /\ vret.out.warnings[1].why = "constraint"
    /\ vschema[2].name \in DOMAIN vret.out.cleaned

\* C10: when validate returns, every key of the decision that names no
\* schema field is in the cleaned record with its value, and the cleaned
\* record has no key the decision lacks
C10_ExtrasPreserved ==
    (vret.done /\ vret.out.raised = "") =>
        /\ \A k \in DOMAIN vret.decision :
              k \notin FieldNames(vschema)
                 => k \in DOMAIN vret.out.cleaned
                    /\ vret.out.cleaned[k] = vret.decision[k]
        /\ DOMAIN vret.out.cleaned \subseteq DOMAIN vret.decision

\* a decision with an extra key and a dropped schema field came back
C10_Witness ==
    /\ vret.done /\ vret.out.raised = ""
    /\ "id" \in DOMAIN vret.out.cleaned
    /\ Len(vret.out.warnings) > 0
    /\ \E k \in DOMAIN vret.decision :
          k \in FieldNames(vschema) /\ k \notin DOMAIN vret.out.cleaned

(***************************************************************************)
(* C11  Validating and evaluating a decision leaves the caller's decision  *)
(* mapping unchanged, in both modes and whether validation succeeds, warns *)
(* or raises; the cleaned record validate returns is a new mapping, not    *)
(* the input.                                                              *)
(***************************************************************************)
C11_Step ==
    /\ vdecision' = vdecision
    /\ (vret'.done /\ ~vret.done) => vret'.cleaned_is # "decision"

validate_email(value) == value.t = "str" /\ StrText(value.v) = "a@b.io"

C12_AliasValidatorApplied ==
    vret.done =>
        \A i \in 1..Len(vschema) :
           LET f == vschema[i]
           IN (/\ f.type_name = "email"
               /\ Present(f, vret.decision)
               /\ ~validate_email(vret.decision[f.name]))
              => IF vmode = "strict"
                 THEN vret.out.raised = "DecisionValidationError"
                 ELSE /\ f.name \notin DOMAIN vret.out.cleaned
                      /\ Len(vret.out.warnings) > 0

(***************************************************************************)
(* engine.py: the Engine facade                                            *)
(***************************************************************************)
\* a frozen check that never raises
check_frozen_never(fz) == ""

\* Engine._check_frozen: the error it raises, "" for none
check_frozen(fz) == IF fz THEN "EngineAlreadyFrozenError" ELSE ""

\* a freeze that leaves the flag as it was
freeze_keep(fz) == fz

\* Engine._freeze
freeze(fz) == TRUE

TypeDefinition(base_type, validator, constraints) ==
    [base_type |-> base_type, validator |-> validator, constraints |-> constraints]

\* TypeRegistry.register_type; constraints are the keyword arguments the
\* signature does not name
TypeRegistry_register_type(tys, name, base_type, validator, constraints) ==
    IF name \in DOMAIN tys
    THEN [ok |-> FALSE, types |-> tys]
    ELSE [ok |-> TRUE,
          types |-> [n \in DOMAIN tys \cup {name} |->
                       IF n = name THEN TypeDefinition(base_type, validator, constraints)
                       ELSE tys[n]]]

\* register_builtin_types on an empty TypeRegistry
BuiltinTypes ==
    [email            |-> TypeDefinition("Str", "validate_email", {}),
     url              |-> TypeDefinition("Str", "validate_url", {}),
     uuid             |-> TypeDefinition("Str", "validate_uuid", {}),
     phone            |-> TypeDefinition("Str", "validate_phone", {}),
     ssn              |-> TypeDefinition("Str", "validate_ssn", {}),
     credit_score     |-> TypeDefinition("Int", "validate_credit_score", {"min", "max"}),
     currency         |-> TypeDefinition("Float", "validate_currency", {"min", "precision"}),
     positive_int     |-> TypeDefinition("Int", "lambda", {"min"}),
     non_negative_int |-> TypeDefinition("Int", "lambda", {"min"})]

\* the loop of Engine.compile: the first rule text the parser rejects ends
\* the call with RuleParseError
compile_error(texts) ==
    IF \E i \in 1..Len(texts) : ~parse_rule(texts[i]).ok THEN "RuleParseError" ELSE ""

(***************************************************************************)
(* Spec: registration, compile and eval calls on one Engine                *)
(***************************************************************************)
FnNames == {"f", "g"}
FnImpls == {"ret_true", "raises"}
NewTypes == {<<"ipv4", "Str">>, <<"email", "Str">>, <<"age", "Int">>}
EngineOps ==
    { OperatorDef("", "within", "infix", "h1", 40, <<"Str", "List">>),
      OperatorDef("", "within", "infix", "h1", 40, <<"*", "*">>),
      OperatorDef("", "in", "infix", "h1", 40, <<"*", "List">>) }
RegistrationOps == {"add_function", "register_type", "register_operator"}

\* Engine.__init__
Init ==
    /\ EvalInit0 /\ ValInit0 /\ ParseInit0 /\ ShareInit0
    /\ \E preset \in Presets :
         LET r == build_operator_registry(preset)
         IN by_token = r.by_token /\ symbols = r.symbols /\ keywords = r.keywords
    /\ opret = [op |-> "none"]
    /\ types = BuiltinTypes
    /\ functions \in {<<>>, [f |-> "ret_true"]}
    /\ frozen = FALSE
    /\ called = FALSE
    /\ ret = [op |-> "none"]

\* Engine.add_function(name, fn)
AddFunction(name, fn) ==
    LET e == check_frozen(frozen)
    IN /\ ret' = [op |-> "add_function", arg |-> name, err |-> e]
       /\ functions' = IF e # "" THEN functions
                       ELSE [n \in DOMAIN functions \cup {name} |->
                               IF n = name THEN fn ELSE functions[n]]
       /\ UNCHANGED <<frozen, called, types, evalVars, opsVars, valVars, parseVars, shareVars>>

\* Engine.register_type(name, base, validator)
RegisterType(name, base) ==
    LET e == check_frozen(frozen)
        r == TypeRegistry_register_type(types, name, base, "validator", {"overwrite"})
    IN /\ ret' = [op |-> "register_type", arg |-> name,
                  err |-> IF e # "" THEN e
                          ELSE IF r.ok THEN "" ELSE "TypeValidationError"]
       /\ types' = IF e # "" THEN types ELSE r.types
       /\ UNCHANGED <<frozen, called, functions, evalVars, opsVars, valVars, parseVars, shareVars>>

\* Engine.register_operator(...)
RegisterOperator(op) ==
    LET e == check_frozen(frozen)
        r == register([by_token |-> by_token, symbols |-> symbols,
                       keywords |-> keywords], op)
    IN /\ frozen \/ HostDefs(by_token) < MaxRegs
       /\ ret' = [op |-> "register_operator", arg |-> token(op),
                  err |-> IF e # "" THEN e
                          ELSE IF r.ok THEN "" ELSE "OperatorConflictError"]
       /\ IF e # "" THEN UNCHANGED <<by_token, symbols, keywords>>
          ELSE by_token' = r.by_token /\ symbols' = r.symbols /\ keywords' = r.keywords
       /\ UNCHANGED <<frozen, called, functions, types, opret, evalVars, valVars, parseVars, shareVars>>

\* Engine.compile(rules, match)
Compile(texts) ==
    /\ called' = TRUE
    /\ frozen' = freeze(frozen)
    /\ ret' = [op |-> "compile", arg |-> Len(texts), err |-> compile_error(texts)]
    /\ UNCHANGED <<functions, types, evalVars, opsVars, valVars, parseVars, shareVars>>

\* Engine.eval(rules, decision, match): compile, then eval_single on the
\* CompiledRules, which touches no field of the engine
EvalCall(texts) ==
    /\ called' = TRUE
    /\ frozen' = freeze(frozen)
    /\ ret' = [op |-> "eval", arg |-> Len(texts), err |-> compile_error(texts)]
    /\ UNCHANGED <<functions, types, evalVars, opsVars, valVars, parseVars, shareVars>>

Next ==
    \/ \E name \in FnNames, fn \in FnImpls : AddFunction(name, fn)
    \/ \E ty \in NewTypes : RegisterType(ty[1], ty[2])
    \/ \E op \in EngineOps : RegisterOperator(op)
    \/ \E texts \in DefLists : Compile(texts)
    \/ \E texts \in DefLists : EvalCall(texts)

Spec == Init /\ [][Next]_vars

(***************************************************************************)
(* C1  Once compile or eval has been called on an engine, every later      *)
(* add_function, register_type or register_operator call raises            *)
(* EngineAlreadyFrozenError, whatever the interleaving of calls; before    *)
(* the first compile or eval no such call is refused as frozen.            *)
(***************************************************************************)
C1_Step ==
    (ret'.op \in RegistrationOps) =>
        /\ (ret'.err = "EngineAlreadyFrozenError") <=> called
        /\ called => UNCHANGED <<functions, types, by_token, symbols, keywords>>

C1_FrozenAfterCompile == [][C1_Step]_vars

\* a registration refused on a frozen engine that had accepted a function
\* and an operator before the freeze
C1_Witness ==
    /\ called
    /\ ret.op \in RegistrationOps /\ ret.err = "EngineAlreadyFrozenError"
    /\ "g" \in DOMAIN functions
    /\ "within" \in DOMAIN by_token

(***************************************************************************)
(* Matcher modes `inverse` and `score` (Matcher.process of the tests).     *)
(* A result carries the decision id, matched, excluded, score and          *)
(* warnings; score is kept as twice its value, None when not computed.     *)
(***************************************************************************)
NoThreshold == [set |-> FALSE, twice |-> 0]
Threshold(t2) == [set |-> TRUE, twice |-> t2]

\* the rule ids whose value is falsy, in list order
RECURSIVE falsy_rules(_)
falsy_rules(results) ==
    IF Len(results) = 0 THEN <<>>
    ELSE (IF Truthy(Head(results).value) THEN <<>> ELSE <<Head(results).rule_id>>)
         \o falsy_rules(Tail(results))

\* twice the contribution of one rule value to the score
contribution_truthy_counts(val) == IF Truthy(val) THEN 2 ELSE 0

contribution(val) ==
    IF val.t = "bool" THEN (IF val.v = 1 THEN 2 ELSE 0)
    ELSE IF Numeric(val) THEN Num(val)
    ELSE 0

\* twice the sum of the contributions
RECURSIVE score_sum(_)
score_sum(results) ==
    IF Len(results) = 0 THEN 0
    ELSE contribution(Head(results).value) + score_sum(Tail(results))

inverse_mode_truthy(id, results, warnings) ==
    [id |-> id, matched |-> <<>>, excluded |-> matched_rules(results),
     score |-> None, warnings |-> warnings]

inverse_mode(id, results, warnings) ==
    [id |-> id, matched |-> <<>>, excluded |-> falsy_rules(results),
     score |-> None, warnings |-> warnings]

score_mode(config, id, results, warnings) ==
    Bind(score_sum(results),
         LAMBDA total : [id |-> id,
                         matched |-> IF config.threshold.set /\ total < config.threshold.twice
                                     THEN <<>> ELSE matched_rules(results),
                         excluded |-> <<>>, score |-> IntV(total), warnings |-> warnings])

\* Matcher(config).process(id, results, metadata, warnings)
Matcher_process(config, id, results, metadata, warnings) ==
    IF config.mode = "inverse" THEN inverse_mode(id, results, warnings)
    ELSE score_mode(config, id, results, warnings)

(***************************************************************************)
(* SpecMatch: RuleMatcher.process_matches applied to a list of             *)
(* (rule_id, value) pairs.  Rule ids run against the positions (the first  *)
(* rule has the largest id), so definition order and id order differ.      *)
(***************************************************************************)
PairValues == {BoolV(TRUE), BoolV(FALSE), IntV(2), FloatV(0), StrV(0), StrV(1)}
MetaPool == {<<>>, [ordering |-> 1], [ordering |-> 2]}
MatchOptionSet ==
    [mode : {"all", "first", "best"}, ordering_key : {"", "ordering"},
     ordering_direction : {"asc", "desc"}]

RuleMatchLists ==
    UNION { {[i \in 1..n |-> [rule_id |-> n + 1 - i, value |-> vs[i]]] :
                vs \in [1..n -> PairValues]} : n \in 0..MaxPairs }

InitMatch ==
    /\ OpsInit0 /\ ValInit0 /\ EngInit0 /\ ParseInit0 /\ ShareInit0
    /\ crule = NoRule /\ crules = <<>> /\ supplied = <<>> /\ res = NoRes /\ everr = ""
    /\ options \in MatchOptionSet
    /\ \E rm \in RuleMatchLists :
         /\ pairs = [done |-> TRUE, data |-> <<>>, out |-> rm]
         /\ rule_metadata \in [1..Len(rm) -> MetaPool]
    /\ mres = [done |-> FALSE]

\* RuleMatcher.process_matches(data_id, rule_matches, rule_metadata)
ProcessMatches ==
    /\ ~mres.done
    /\ mres' = [done |-> TRUE, op |-> "process_matches",
                out |-> process_matches(options, "d1", pairs.out, rule_metadata)]
    /\ UNCHANGED <<crule, crules, options, supplied, res, pairs, rule_metadata, everr>>
    /\ UNCHANGED <<opsVars, valVars, engVars, parseVars, shareVars>>

\* thresholds 1.0 and 2.5, kept as twice their value
MatcherConfigs ==
    {[mode |-> "inverse", threshold |-> NoThreshold]}
    \cup {[mode |-> "score", threshold |-> t] :
              t \in {NoThreshold, Threshold(2), Threshold(5)}}

\* Matcher(config).process("d1", results, metadata, [])
MatcherProcess ==
    /\ ~mres.done
    /\ \E config \in MatcherConfigs :
         mres' = [done |-> TRUE, op |-> "Matcher.process", config |-> config,
                  out |-> Matcher_process(config, "d1", pairs.out, rule_metadata, <<>>)]
    /\ UNCHANGED <<crule, crules, options, supplied, res, pairs, rule_metadata, everr>>
    /\ UNCHANGED <<opsVars, valVars, engVars, parseVars, shareVars>>

NextMatch == ProcessMatches \/ MatcherProcess

SpecMatch == InitMatch /\ [][NextMatch]_vars

\* positions of the pairs whose value is truthy
TruthyPos(rm) == {i \in 1..Len(rm) : Truthy(rm[i].value)}

\* the ids of the pairs at the positions P, in list order
RECURSIVE IdsAt(_, _)
IdsAt(rm, P) ==
    IF P = {} THEN <<>>
    ELSE <<rm[Min(P)].rule_id>> \o IdsAt(rm, P \ {Min(P)})

KeyAt(i) ==
    LET id == pairs.out[i].rule_id
    IN IF options.ordering_key \in DOMAIN rule_metadata[id]
       THEN <<0, rule_metadata[id][options.ordering_key]>> ELSE <<1, 0>>

\* the rule at position i comes before the rule at position j
ComesBefore(i, j) ==
    \/ options.ordering_direction = "asc" /\ KeyLess(KeyAt(i), KeyAt(j))
    \/ options.ordering_direction = "desc" /\ KeyLess(KeyAt(j), KeyAt(i))
    \/ KeyAt(i) = KeyAt(j) /\ i < j

C14_FirstModeMatched ==
    (mres.done /\ mres.op = "process_matches" /\ options.mode = "first") =>
        LET T == TruthyPos(pairs.out)
        IN /\ mres.out.raised = ""
           /\ T = {} => mres.out.result.results = <<>>
           /\ T # {} =>
                \E i \in T :
                   /\ mres.out.result.results = <<pairs.out[i].rule_id>>
                   /\ \A j \in T \ {i} : ComesBefore(i, j)

\* descending order, three truthy rules, the two with the largest key tie
\* and the earlier of the two, which is not the first rule, is returned
C14_Witness ==
    /\ mres.done /\ mres.op = "process_matches" /\ options.mode = "first"
    /\ options.ordering_key = "ordering" /\ options.ordering_direction = "desc"
    /\ TruthyPos(pairs.out) = {1, 2, 3}
    /\ KeyAt(1) = <<0, 1>> /\ KeyAt(2) = <<0, 2>> /\ KeyAt(3) = <<0, 2>>
    /\ mres.out.result.results = <<pairs.out[2].rule_id>>

(***************************************************************************)
(* C15  In mode `inverse` excluded is exactly the rule ids whose value is  *)
(* falsy, in rule-definition order, and matched is empty.                  *)
(***************************************************************************)
C15_InverseExcluded ==
    (mres.done /\ mres.op = "Matcher.process" /\ mres.config.mode = "inverse") =>
        /\ mres.out.excluded =
               IdsAt(pairs.out, (1..Len(pairs.out)) \ TruthyPos(pairs.out))
        /\ mres.out.matched = <<>>

\* three pairs of which the second is truthy: the first and third are excluded
C15_Witness ==
    /\ mres.done /\ mres.op = "Matcher.process" /\ mres.config.mode = "inverse"
    /\ Len(pairs.out) = 3
    /\ TruthyPos(pairs.out) = {2}
    /\ Len(mres.out.excluded) = 2

(***************************************************************************)
(* C16  In mode `score` the score is the sum over all results of 1 for     *)
(* true, 0 for false, the value itself for a number and 0 for anything     *)
(* else; with a threshold, matched is the truthy ids in definition order   *)
(* when score >= threshold and empty when score < threshold.               *)
(***************************************************************************)
\* twice the sum of the values at the positions P
RECURSIVE SumAt(_, _)
SumAt(rm, P) ==
    IF P = {} THEN 0
    ELSE LET i == CHOOSE j \in P : TRUE
         IN Num(rm[i].value) + SumAt(rm, P \ {i})

\* twice the expected score: the true results count 1 each, the other
\* numbers count as themselves
ExpectedScore(rm) ==
    2 * Cardinality({i \in 1..Len(rm) : rm[i].value = BoolV(TRUE)})
    + SumAt(rm, {i \in 1..Len(rm) : rm[i].value.t \in {"int", "float"}})

C16_ScoreSum ==
    (mres.done /\ mres.op = "Matcher.process" /\ mres.config.mode = "score") =>
        /\ mres.out.score = IntV(ExpectedScore(pairs.out))
        /\ mres.config.threshold.set =>
             IF ExpectedScore(pairs.out) >= mres.config.threshold.twice
             THEN mres.out.matched = IdsAt(pairs.out, TruthyPos(pairs.out))
             ELSE mres.out.matched = <<>>

\* true, 0.5 and a non-empty string: score 1.5 is below the threshold 2.5
\* although all three values are truthy, so matched is empty
C16_Witness ==
    /\ mres.done /\ mres.op = "Matcher.process" /\ mres.config.mode = "score"
    /\ mres.config.threshold = Threshold(5)
    /\ Len(pairs.out) = 3
    /\ pairs.out[1].value = BoolV(TRUE)
    /\ pairs.out[2].value = FloatV(0)
    /\ pairs.out[3].value = StrV(1)
    /\ mres.out.score = IntV(3)
    /\ mres.out.matched = <<>>

(***************************************************************************)
(* SpecBatch: CompiledRules.eval over a list of decisions.  The list       *)
(* handed to eval is held in mres.data from the start.                     *)
(***************************************************************************)
\* the compiled rules `score > 0` and `active`
BatchRules ==
    <<compile_rule(1, BinaryOp(">", VScore, Literal(IntV(0))), 12),
      compile_rule(2, VActive, 12)>>

BatchItems ==
    { [score |-> IntV(1)],
      [id |-> StrV(1), score |-> IntV(1)],
      [id |-> StrV(2), score |-> IntV(0), active |-> BoolV(TRUE)],
      [id |-> IntV(0), active |-> BoolV(FALSE)] }

ItemLists == UNION {[1..n -> BatchItems] : n \in 0..MaxItems}

InitBatch ==
    /\ OpsInit0 /\ ValInit0 /\ EngInit0 /\ ParseInit0 /\ ShareInit0
    /\ crule = NoRule /\ crules = BatchRules /\ supplied = BatchRules
    /\ res = NoRes /\ pairs = NoPairs /\ everr = ""
    /\ options \in {o \in MatchOptionSet : o.mode \in {"all", "first"}}
    /\ rule_metadata \in [1..Len(BatchRules) -> MetaPool]
    /\ \E data \in ItemLists : mres = [done |-> FALSE, data |-> data]

\* CompiledRules.eval(data)
Eval ==
    /\ ~mres.done
    /\ mres' = [done |-> TRUE, op |-> "eval", data |-> mres.data,
                out |-> CompiledRules_eval(crules, options, rule_metadata,
                                           functions, mres.data)]
    /\ UNCHANGED <<crule, crules, options, supplied, res, pairs, rule_metadata, everr>>
    /\ UNCHANGED <<opsVars, valVars, engVars, parseVars, shareVars>>

\* CompiledRules.eval_single(data) on the first decision of the list
EvalSingle ==
    /\ ~mres.done
    /\ Len(mres.data) > 0
    /\ mres' = [done |-> TRUE, op |-> "eval_single", data |-> mres.data,
                out |-> CompiledRules_eval_single(crules, options, rule_metadata,
                                                  functions, mres.data[1])]
    /\ UNCHANGED <<crule, crules, options, supplied, res, pairs, rule_metadata, everr>>
    /\ UNCHANGED <<opsVars, valVars, engVars, parseVars, shareVars>>

NextBatch == Eval \/ EvalSingle

SpecBatch == InitBatch /\ [][NextBatch]_vars

(***************************************************************************)
(* C17  CompiledRules.eval over n decisions returns exactly n results,     *)
(* result i being the result for decision i with that decision's id; a     *)
(* decision without an `id` key is evaluated normally, without error, and  *)
(* its result id is null.                                                  *)
(***************************************************************************)
\* the result for one decision taken alone
ResultFor(item) ==
    process_matches(options, ItemId(item),
                    evaluate_rules_for_data(crules, item, functions),
                    rule_metadata).result

C17_BatchInOrder ==
    (mres.done /\ mres.op = "eval") =>
        /\ mres.out.raised = ""
        /\ Len(mres.out.results) = Len(mres.data)
        /\ \A i \in 1..Len(mres.data) :
              /\ mres.out.results[i].id = ItemId(mres.data[i])
              /\ mres.out.results[i] = ResultFor(mres.data[i])

(***************************************************************************)
(* rules/parser.py: the recursive-descent RuleParser over its token list.  *)
(* A parse result is [ok, node, pos, err]; pos is the next token to read.  *)
(***************************************************************************)
Token(type, value) == [type |-> type, value |-> value]
NoToken == Token("none", "")

\* RuleParser._variables for the schema  score: int, active: bool, addr.city
ParserVariables == {<<"score">>, <<"active">>, <<"addr", "city">>}

POk(n, pos) == [ok |-> TRUE, node |-> n, pos |-> pos, err |-> ""]
PErr(e)     == [ok |-> FALSE, node |-> Literal(None), pos |-> 0, err |-> e]

\* RuleParser._peek
peek(toks, pos) == IF pos <= Len(toks) THEN toks[pos] ELSE NoToken

\* RuleParser._match_operator
match_operator(toks, pos, operators) ==
    /\ peek(toks, pos).type = "operator"
    /\ peek(toks, pos).value \in operators

ComparisonOperators == {"=", "!=", ">", "<", ">=", "<=", "in", "not in"}

\* int(value) / float(value) of a NUMBER token
NumberValue(text) ==
    CASE text = "0" -> IntV(0)
      [] text = "1" -> IntV(1)
      [] text = "2" -> IntV(2)
      [] OTHER      -> FloatV(0)

\* token.value[1:-1] of a STRING token
StringValue(text) ==
    CASE text = "'CA'" -> StrV(1)
      [] text = "'NY'" -> StrV(2)
      [] OTHER        -> StrV(0)

RECURSIVE parse_expression(_, _)
RECURSIVE parse_or_loop(_, _)
RECURSIVE parse_and(_, _)
RECURSIVE parse_and_loop(_, _)
RECURSIVE parse_not(_, _)
RECURSIVE parse_comparison(_, _)
RECURSIVE parse_primary(_, _)
RECURSIVE parse_parenthesized(_, _)
RECURSIVE parse_name_or_function(_, _)
RECURSIVE parse_function_call(_, _, _, _)
RECURSIVE parse_dotted_name(_, _, _)

\* RuleParser._parse_or: the while loop
parse_or_loop(toks, left) ==
    IF ~left.ok THEN left
    ELSE IF match_operator(toks, left.pos, {"or"})
    THEN Bind(parse_and(toks, left.pos + 1),
              LAMBDA right : IF ~right.ok THEN right
                             ELSE parse_or_loop(toks, POk(BinaryOp("or", left.node, right.node), right.pos)))
    ELSE left

\* RuleParser._parse_or
parse_or(toks, pos) == parse_or_loop(toks, parse_and(toks, pos))

\* RuleParser._parse_expression
parse_expression(toks, pos) == parse_or(toks, pos)

\* RuleParser._parse_and: the while loop
parse_and_loop(toks, left) ==
    IF ~left.ok THEN left
    ELSE IF match_operator(toks, left.pos, {"and"})
    THEN Bind(parse_not(toks, left.pos + 1),
              LAMBDA right : IF ~right.ok THEN right
                             ELSE parse_and_loop(toks, POk(BinaryOp("and", left.node, right.node), right.pos)))
    ELSE left

\* RuleParser._parse_and
parse_and(toks, pos) == parse_and_loop(toks, parse_not(toks, pos))

\* a _parse_not that reads the operand of `not` with _parse_primary
parse_not_primary(toks, pos) ==
    IF match_operator(toks, pos, {"not"})
    THEN Bind(parse_primary(toks, pos + 1),
              LAMBDA operand : IF ~operand.ok THEN operand
                               ELSE POk(UnaryOp("not", operand.node), operand.pos))
    ELSE parse_comparison(toks, pos)

\* RuleParser._parse_not
parse_not(toks, pos) ==
    IF match_operator(toks, pos, {"not"})
    THEN Bind(parse_comparison(toks, pos + 1),
              LAMBDA operand : IF ~operand.ok THEN operand
                               ELSE POk(UnaryOp("not", operand.node), operand.pos))
    ELSE parse_comparison(toks, pos)

\* RuleParser._parse_comparison
parse_comparison(toks, pos) ==
    Bind(parse_primary(toks, pos),
         LAMBDA left : IF ~left.ok THEN left
                       ELSE IF match_operator(toks, left.pos, ComparisonOperators)
                       THEN Bind(parse_primary(toks, left.pos + 1),
                                 LAMBDA right : IF ~right.ok THEN right
                                                ELSE POk(BinaryOp(toks[left.pos].value, left.node, right.node), right.pos))
                       ELSE left)

\* RuleParser._parse_primary
parse_primary(toks, pos) ==
    LET tok == peek(toks, pos)
    IN CASE tok = NoToken          -> PErr("RuleParseError")
         [] tok.type = "lparen"    -> parse_parenthesized(toks, pos)
         [] tok.type = "number"    -> POk(Literal(NumberValue(tok.value)), pos + 1)
         [] tok.type = "string"    -> POk(Literal(StringValue(tok.value)), pos + 1)
         [] tok.type = "name"      -> parse_name_or_function(toks, pos)
         [] OTHER                    -> PErr("RuleParseError")

\* RuleParser._parse_parenthesized
parse_parenthesized(toks, pos) ==
    Bind(parse_expression(toks, pos + 1),
         LAMBDA expr : IF ~expr.ok THEN expr
                       ELSE IF peek(toks, expr.pos).type # "rparen" THEN PErr("RuleParseError")
                       ELSE POk(expr.node, expr.pos + 1))

\* RuleParser._parse_name_or_function
parse_name_or_function(toks, pos) ==
    LET name == toks[pos].value
    IN IF peek(toks, pos + 1).type = "lparen"
       THEN parse_function_call(toks, name, pos + 2, <<>>)
       ELSE IF peek(toks, pos + 1).type = "dot"
       THEN parse_dotted_name(toks, <<name>>, pos + 1)
       ELSE IF <<name>> \in ParserVariables THEN POk(Variable(<<name>>), pos + 1)
       ELSE PErr("RuleParseError")

\* RuleParser._parse_function_call after the opening parenthesis: the
\* argument loop and the closing parenthesis
parse_function_call(toks, name, pos, args) ==
    IF peek(toks, pos) # NoToken /\ peek(toks, pos).type # "rparen"
    THEN Bind(parse_expression(toks, pos),
              LAMBDA a : IF ~a.ok THEN a
                         ELSE IF peek(toks, a.pos).type = "comma"
                         THEN parse_function_call(toks, name, a.pos + 1, Append(args, a.node))
                         ELSE IF peek(toks, a.pos) # NoToken /\ peek(toks, a.pos).type # "rparen"
                         THEN PErr("RuleParseError")
                         ELSE parse_function_call(toks, name, a.pos, Append(args, a.node)))
    ELSE IF peek(toks, pos).type # "rparen" THEN PErr("RuleParseError")
    ELSE POk(FunctionCall(name, args), pos + 1)

\* RuleParser._parse_dotted_name
parse_dotted_name(toks, parts, pos) ==
    IF peek(toks, pos).type = "dot"
    THEN (IF peek(toks, pos + 1).type # "name" THEN PErr("RuleParseError")
          ELSE parse_dotted_name(toks, Append(parts, toks[pos + 1].value), pos + 2))
    ELSE IF parts \in ParserVariables THEN POk(Variable(parts), pos)
    ELSE PErr("RuleParseError")

\* RuleParser.parse: the root of _parse_expression; tokens left over after
\* it are not looked at
RuleParser_parse(toks) == parse_expression(toks, 1)

(***************************************************************************)
(* SpecParse: two token lists of one rule, one written without             *)
(* parentheses and one with parentheses around some of its                 *)
(* sub-expressions, parsed, compiled and evaluated on a decision.          *)
(***************************************************************************)
ParseCmps == { BinaryOp("=", VScore, Literal(IntV(1))),
               VActive,
               FunctionCall("f", <<VScore>>) }

NotTerms == ParseCmps \cup {UnaryOp("not", c) : c \in ParseCmps}

\* `and` chains of n operands, grouped to the left
RECURSIVE AndTerms(_)
AndTerms(n) ==
    IF n = 1 THEN NotTerms
    ELSE {BinaryOp("and", l, r) : l \in AndTerms(n - 1), r \in NotTerms}

\* `or` chains, grouped to the left, over `and` chains: n operands in all
RECURSIVE OrTerms(_)
OrTerms(n) ==
    AndTerms(n)
    \cup UNION { {BinaryOp("or", l, r) : l \in OrTerms(k), r \in AndTerms(n - k)} :
                   k \in 1..(n - 1) }

RuleTrees == UNION {OrTerms(n) : n \in 1..MaxOperands}

\* the kinds of sub-expression a writer may put in parentheses
Wraps == { {}, {"or"}, {"and"}, {"not"}, {"cmp"}, {"atom"},
           {"or", "and", "not", "cmp", "atom"} }

KindOf(node) ==
    IF node.kind = "BinaryOp" /\ node.op \in {"and", "or"} THEN node.op
    ELSE IF node.kind = "BinaryOp" THEN "cmp"
    ELSE IF node.kind = "UnaryOp" THEN "not"
    ELSE "atom"

NumberText(val) ==
    CASE val = IntV(0) -> "0" [] val = IntV(1) -> "1" [] val = IntV(2) -> "2"
      [] OTHER -> "0.5"

RECURSIVE RenderName(_)
RenderName(parts) ==
    IF Len(parts) = 1 THEN <<Token("name", parts[1])>>
    ELSE <<Token("name", parts[1]), Token("dot", ".")>> \o RenderName(Tail(parts))

\* the tokens of the rule text for node, with every sub-expression whose
\* kind is in wrap put in parentheses
RECURSIVE Render(_, _)
RECURSIVE RenderArgs(_, _)
RenderArgs(args, wrap) ==
    IF Len(args) = 0 THEN <<>>
    ELSE IF Len(args) = 1 THEN Render(args[1], wrap)
    ELSE Render(args[1], wrap) \o <<Token("comma", ",")>> \o RenderArgs(Tail(args), wrap)

Render(node, wrap) ==
    Bind(CASE node.kind = "BinaryOp" ->
                Render(node.args[1], wrap) \o <<Token("operator", node.op)>>
                \o Render(node.args[2], wrap)
           [] node.kind = "UnaryOp" ->
                <<Token("operator", node.op)>> \o Render(node.args[1], wrap)
           [] node.kind = "Literal" -> <<Token("number", NumberText(node.value))>>
           [] node.kind = "Variable" -> RenderName(node.name)
           [] OTHER ->
                <<Token("name", node.name[1]), Token("lparen", "(")>>
                \o RenderArgs(node.args, wrap) \o <<Token("rparen", ")")>>,
         LAMBDA body : IF KindOf(node) \in wrap
                       THEN <<Token("lparen", "(")>> \o body \o <<Token("rparen", ")")>>
                       ELSE body)

\* the host function f returns its argument
ParseFns == [f |-> "first_arg"]

ParseData == { <<>>,
               [score |-> IntV(1)],
               [score |-> IntV(0), active |-> BoolV(TRUE)] }

InitParse ==
    /\ EvalInit0 /\ OpsInit0 /\ ValInit0 /\ ShareInit0
    /\ frozen = FALSE /\ called = FALSE /\ types = <<>> /\ ret = [op |-> "none"]
    /\ functions = ParseFns
    /\ \E tree \in RuleTrees, wrap \in Wraps, data \in ParseData :
         pin = [plain |-> Render(tree, {}), grouped |-> Render(tree, wrap),
                data |-> data]
    /\ pout = [done |-> FALSE]

\* parse, optimize, compile and evaluate one token list on a decision
Verdict(toks, data, fns) ==
    Bind(RuleParser_parse(toks),
         LAMBDA p :
           Bind(IF p.ok THEN optimize_node(p.node) ELSE ErrNode(p.err),
                LAMBDA o : IF ~o.ok THEN [parsed |-> FALSE, node |-> o.node, pairs |-> <<>>]
                           ELSE [parsed |-> TRUE, node |-> p.node,
                                 pairs |-> evaluate_rules_for_data(<<compile_rule(1, o.node, 12)>>,
                                                                   data, fns)]))

\* both rule texts go through parse, compile and evaluation
ParseAndEvaluate ==
    /\ ~pout.done
    /\ pout' = [done |-> TRUE,
                plain |-> Verdict(pin.plain, pin.data, functions),
                grouped |-> Verdict(pin.grouped, pin.data, functions)]
    /\ UNCHANGED <<pin, evalVars, opsVars, valVars, engVars, shareVars>>

NextParse == ParseAndEvaluate

SpecParse == InitParse /\ [][NextParse]_vars

(***************************************************************************)
(* C18  Operators bind in the order or < and < not < comparison: a rule    *)
(* and the same rule with parentheses added around sub-expressions of that *)
(* grouping parse to the same tree and give the same verdict on every      *)
(* decision (`a and b or c` as `(a and b) or c`, `a or b and c` as         *)
(* `a or (b and c)`, `not a = b` as `not (a = b)`).                        *)
(***************************************************************************)
C18_ParenthesesKeepVerdict ==
    pout.done =>
        /\ pout.plain.parsed /\ pout.grouped.parsed
        /\ pout.plain.node = pout.grouped.node
        /\ pout.plain.pairs = pout.grouped.pairs

\* `score = 1 or not score = 1 and active` against
\* `score = 1 or (not (score = 1) and active)`-style grouping: the root is
\* `or`, its right operand an `and` whose left operand is `not` over `=`
C18_Witness ==
    /\ pout.done /\ pout.plain.parsed
    /\ pin.plain # pin.grouped
    /\ pout.plain.node.kind = "BinaryOp" /\ pout.plain.node.op = "or"
    /\ pout.plain.node.args[2].kind = "BinaryOp"
    /\ pout.plain.node.args[2].op = "and"
    /\ pout.plain.node.args[2].args[1].kind = "UnaryOp"
    /\ pout.plain.node.args[2].args[1].args[1].kind = "BinaryOp"
    /\ pout.plain.node.args[2].args[1].args[1].op = "="
    /\ pout.grouped.pairs[1].value = BoolV(TRUE)

(***************************************************************************)
(* schema/ast.py, schema/types.py, schema/parser.py: the schema parser.    *)
(* A schema text is the list of its lexemes (whitespace and line breaks    *)
(* dropped); token positions count from 0 as self.pos does.                *)
(***************************************************************************)
SchemaFieldDefinition(name, field_type, type_name, element_types, constraints, optional) ==
    [name |-> name, field_type |-> field_type, type_name |-> type_name,
     element_types |-> element_types, constraints |-> constraints,
     optional |-> optional]

StructDefinition(name, fields) == [name |-> name, fields |-> fields]

FunctionDefinition(name, input_types, output_type, default_args) ==
    [name |-> name, input_types |-> input_types, output_type |-> output_type,
     default_args |-> default_args]

SchemaAST(fields_, structs_, functions_, constants_) ==
    [fields |-> fields_, structs |-> structs_, functions |-> functions_,
     constants |-> constants_]

EmptySchemaAST == SchemaAST(<<>>, <<>>, <<>>, <<>>)

\* constraint values: numbers as IntV / FloatV, strings with their text
TextV(s) == [t |-> "text", s |-> s]

\* parse_type(type_str) with strict=False and no known custom types
parse_type(type_str) ==
    CASE type_str \in {"Str", "str"}         -> "Str"
      [] type_str \in {"Int", "int"}         -> "Int"
      [] type_str \in {"Float", "float"}     -> "Float"
      [] type_str \in {"Bool", "bool"}       -> "Bool"
      [] type_str \in {"Decimal", "decimal"} -> "Decimal"
      [] type_str \in {"Any", "any"}         -> "Any"
      [] type_str \in {"List", "list"}       -> "List"
      [] type_str \in {"Struct", "struct"}   -> "Struct"
      [] OTHER                               -> "custom"

\* is_reserved_name
is_reserved_name(name) ==
    name \in {"and", "or", "not", "in", "typeof", "is_valid",
              "AND", "OR", "NOT", "IN", "TYPEOF", "IS_VALID"}

SchemaPunctuation ==
    [colon |-> ":", comma |-> ",", equals |-> "=", lbrace |-> "{", rbrace |-> "}",
     lparen |-> "(", rparen |-> ")", arrow |-> "->", pipe |-> "|",
     lbracket |-> "[", rbracket |-> "]", question |-> "?"]

NumberLexemes == {"0", "1", "2", "0.5"}

\* repr() of a str: the text in single quotes
ReprStr(s) == "'" \o s \o "'"

QuotedLexemes == {ReprStr(w) : w \in {"email", "url", "x", "1", "2"}}

\* the token type TOKEN_PATTERNS gives a lexeme; "" when the first
\* character of the lexeme matches no pattern (a quote)
LexType(lex) ==
    IF \E k \in DOMAIN SchemaPunctuation : SchemaPunctuation[k] = lex
    THEN CHOOSE k \in DOMAIN SchemaPunctuation : SchemaPunctuation[k] = lex
    ELSE IF lex \in NumberLexemes THEN "number"
    ELSE IF lex \in QuotedLexemes THEN ""
    ELSE "word"

SToken(value, token_type) == [value |-> value, token_type |-> token_type]
NoSToken == SToken("", "EOF")

\* SchemaParser._tokenize
tokenize(lexemes) ==
    IF \E i \in 1..Len(lexemes) : LexType(lexemes[i]) = ""
    THEN [ok |-> FALSE, err |-> "SchemaParseError", tokens |-> <<>>]
    ELSE [ok |-> TRUE, err |-> "",
          tokens |-> [i \in 1..Len(lexemes) |-> SToken(lexemes[i], LexType(lexemes[i]))]]

\* SchemaParser._peek
speek(toks, pos) == IF pos < Len(toks) THEN toks[pos + 1] ELSE NoSToken

SOk(val, pos) == [ok |-> TRUE, val |-> val, pos |-> pos, err |-> ""]
SErr(e)       == [ok |-> FALSE, val |-> None, pos |-> 0, err |-> e]

\* "|".join(element_types)
RECURSIVE JoinPipe(_)
JoinPipe(names) ==
    IF Len(names) = 0 THEN ""
    ELSE IF Len(names) = 1 THEN names[1]
    ELSE names[1] \o "|" \o JoinPipe(Tail(names))

\* SchemaParser._parse_type_expression: the element loop of list[...]
RECURSIVE parse_element_types(_, _, _)
parse_element_types(toks, pos, element_types) ==
    IF speek(toks, pos) # NoSToken /\ speek(toks, pos).token_type # "rbracket"
    THEN (IF speek(toks, pos).token_type # "word" THEN SErr("SchemaParseError")
          ELSE LET elems == Append(element_types, speek(toks, pos).value)
               IN IF speek(toks, pos + 1).token_type = "pipe"
                  THEN parse_element_types(toks, pos + 2, elems)
                  ELSE IF speek(toks, pos + 1) # NoSToken
                          /\ speek(toks, pos + 1).token_type # "rbracket"
                  THEN SErr("SchemaParseError")
                  ELSE parse_element_types(toks, pos + 1, elems))
    ELSE IF speek(toks, pos).token_type # "rbracket" THEN SErr("SchemaParseError")
    ELSE SOk(element_types, pos + 1)

\* SchemaParser._parse_type_expression
parse_type_expression(toks, pos) ==
    IF speek(toks, pos).token_type # "word" THEN SErr("SchemaParseError")
    ELSE LET type_name == speek(toks, pos).value
         IN IF type_name = "list" /\ speek(toks, pos + 1).token_type = "lbracket"
            THEN Bind(parse_element_types(toks, pos + 2, <<>>),
                      LAMBDA e : IF ~e.ok THEN e
                                 ELSE SOk([type |-> "List",
                                           name |-> "list[" \o JoinPipe(e.val) \o "]",
                                           element_types |-> e.val], e.pos))
            ELSE SOk([type |-> parse_type(type_name), name |-> type_name,
                      element_types |-> <<>>], pos + 1)

\* constraints[key] = value on a dict kept as a list of pairs in insertion
\* order
DictSet(pairs_, key, val) ==
    IF \E i \in 1..Len(pairs_) : pairs_[i].key = key
    THEN [i \in 1..Len(pairs_) |->
             IF pairs_[i].key = key THEN [key |-> key, val |-> val] ELSE pairs_[i]]
    ELSE Append(pairs_, [key |-> key, val |-> val])

\* SchemaParser._parse_constraints after the opening brace
RECURSIVE parse_constraints_loop(_, _, _)
parse_constraints_loop(toks, pos, constraints) ==
    IF speek(toks, pos) # NoSToken /\ speek(toks, pos).token_type # "rbrace"
    THEN (IF speek(toks, pos).token_type # "word" \/ speek(toks, pos + 1).token_type # "colon"
          THEN SErr("SchemaParseError")
          ELSE LET key == speek(toks, pos).value
                   value_token == speek(toks, pos + 2)
               IN IF value_token = NoSToken THEN SErr("AttributeError")
                  ELSE IF key \in {"min", "max", "length"} /\ value_token.token_type # "number"
                  THEN SErr("ValueError")
                  ELSE LET val == IF key \in {"min", "max", "length"}
                                  THEN NumberValue(value_token.value)
                                  ELSE TextV(value_token.value)
                           next == IF speek(toks, pos + 3).token_type = "comma"
                                   THEN pos + 4 ELSE pos + 3
                       IN parse_constraints_loop(toks, next, DictSet(constraints, key, val)))
    ELSE IF speek(toks, pos).token_type # "rbrace" THEN SErr("SchemaParseError")
    ELSE SOk(constraints, pos + 1)

\* SchemaParser._parse_constraints
parse_constraints(toks, pos) ==
    IF speek(toks, pos).token_type # "lbrace" THEN SErr("SchemaParseError")
    ELSE parse_constraints_loop(toks, pos + 1, <<>>)

\* SchemaParser._parse_field
parse_field(toks, pos) ==
    IF speek(toks, pos).token_type # "word" THEN SErr("SchemaParseError")
    ELSE IF is_reserved_name(speek(toks, pos).value) THEN SErr("SchemaParseError")
    ELSE IF speek(toks, pos + 1).token_type # "colon" THEN SErr("SchemaParseError")
    ELSE LET name == speek(toks, pos).value
         IN Bind(parse_type_expression(toks, pos + 2),
                 LAMBDA ty : IF ~ty.ok THEN ty
                             ELSE LET optional == speek(toks, ty.pos).token_type = "question"
                                      p1 == IF optional THEN ty.pos + 1 ELSE ty.pos
                                  IN Bind(IF speek(toks, p1).token_type = "lbrace"
                                          THEN parse_constraints(toks, p1) ELSE SOk(<<>>, p1),
                                          LAMBDA cs : IF ~cs.ok THEN cs
                                                      ELSE SOk(SchemaFieldDefinition(name, ty.val.type, ty.val.name,
                                                                                     ty.val.element_types, cs.val, optional),
                                                               cs.pos)))

\* SchemaParser._parse_struct: the field loop and the closing brace
RECURSIVE parse_struct_fields(_, _, _)
parse_struct_fields(toks, pos, fields) ==
    IF speek(toks, pos) # NoSToken /\ speek(toks, pos).token_type # "rbrace"
    THEN Bind(parse_field(toks, pos),
              LAMBDA f : IF ~f.ok THEN f
                         ELSE parse_struct_fields(
                                  toks,
                                  IF speek(toks, f.pos).token_type = "comma" THEN f.pos + 1 ELSE f.pos,
                                  Append(fields, f.val)))
    ELSE IF speek(toks, pos).token_type # "rbrace" THEN SErr("SchemaParseError")
    ELSE SOk(fields, pos + 1)

\* SchemaParser._parse_struct
parse_struct(toks, pos) ==
    IF speek(toks, pos).token_type # "word" \/ speek(toks, pos + 1).token_type # "word"
       \/ speek(toks, pos + 2).token_type # "lbrace"
    THEN SErr("SchemaParseError")
    ELSE Bind(parse_struct_fields(toks, pos + 3, <<>>),
              LAMBDA fs : IF ~fs.ok THEN fs
                          ELSE SOk(StructDefinition(speek(toks, pos + 1).value, fs.val), fs.pos))

\* SchemaParser._parse_function: a parenthesised list of words with
\* optional commas, up to and including the closing parenthesis
RECURSIVE parse_word_list(_, _, _, _)
parse_word_list(toks, pos, words, as_types) ==
    IF speek(toks, pos) # NoSToken /\ speek(toks, pos).token_type # "rparen"
    THEN (IF as_types /\ speek(toks, pos).token_type # "word" THEN SErr("SchemaParseError")
          ELSE LET w == IF as_types THEN parse_type(speek(toks, pos).value)
                        ELSE speek(toks, pos).value
               IN parse_word_list(
                      toks,
                      IF speek(toks, pos + 1).token_type = "comma" THEN pos + 2 ELSE pos + 1,
                      Append(words, w), as_types))
    ELSE IF speek(toks, pos).token_type # "rparen" THEN SErr("SchemaParseError")
    ELSE SOk(words, pos + 1)

\* SchemaParser._parse_function
parse_function(toks, pos) ==
    IF speek(toks, pos).token_type # "word" \/ speek(toks, pos + 1).token_type # "colon"
    THEN SErr("SchemaParseError")
    ELSE LET p0 == pos + 2
             has_defaults ==
                 /\ speek(toks, p0).token_type = "lparen"
                 /\ p0 + 3 < Len(toks)
                 /\ toks[p0 + 2].token_type = "word"
                 /\ toks[p0 + 3].token_type = "rparen"
                 /\ toks[p0 + 4].token_type = "lparen"
         IN Bind(IF has_defaults THEN parse_word_list(toks, p0 + 1, <<>>, FALSE)
                 ELSE SOk(<<>>, p0),
                 LAMBDA da : IF ~da.ok THEN da
                             ELSE IF speek(toks, da.pos).token_type # "lparen" THEN SErr("SchemaParseError")
                             ELSE Bind(parse_word_list(toks, da.pos + 1, <<>>, TRUE),
                                       LAMBDA ins : IF ~ins.ok THEN ins
                                                    ELSE IF speek(toks, ins.pos).token_type # "arrow"
                                                            \/ speek(toks, ins.pos + 1).token_type # "word"
                                                    THEN SErr("SchemaParseError")
                                                    ELSE SOk(FunctionDefinition(speek(toks, pos).value, ins.val,
                                                                                parse_type(speek(toks, ins.pos + 1).value),
                                                                                da.val),
                                                             ins.pos + 2)))

\* SchemaParser._parse_constant
parse_constant(toks, pos) ==
    IF \/ speek(toks, pos).token_type # "word"
       \/ speek(toks, pos + 1).token_type # "colon"
       \/ speek(toks, pos + 2).token_type # "word"
       \/ speek(toks, pos + 3).token_type # "equals"
       \/ speek(toks, pos + 4).token_type # "number"
    THEN SErr("SchemaParseError")
    ELSE LET type_name == speek(toks, pos + 2).value
             text == speek(toks, pos + 4).value
             val == IF type_name \in {"int", "float"} THEN NumberValue(text)
                    ELSE TextV(text)
         IN IF type_name = "int" /\ NumberValue(text).t # "int" THEN SErr("ValueError")
            ELSE SOk([key |-> speek(toks, pos).value, val |-> val], pos + 5)

\* SchemaParser._is_function_declaration: the look-ahead loop
RECURSIVE function_lookahead(_, _, _, _)
function_lookahead(toks, i, max_lookahead, paren_count) ==
    IF i >= max_lookahead THEN FALSE
    ELSE LET tok == toks[i + 1]
         IN IF tok.token_type = "lparen"
            THEN function_lookahead(toks, i + 1, max_lookahead, paren_count + 1)
            ELSE IF tok.token_type = "rparen"
            THEN (IF paren_count - 1 = 0 /\ i + 1 < Len(toks)
                     /\ toks[i + 2].token_type = "arrow"
                  THEN TRUE
                  ELSE function_lookahead(toks, i + 1, max_lookahead, paren_count - 1))
            ELSE IF tok.token_type = "word" /\ paren_count = 0 THEN FALSE
            ELSE function_lookahead(toks, i + 1, max_lookahead, paren_count)

\* SchemaParser._is_function_declaration
is_function_declaration(toks, pos) ==
    IF pos + 3 >= Len(toks) THEN FALSE
    ELSE IF ~(toks[pos + 1].token_type = "word" /\ toks[pos + 2].token_type = "colon")
    THEN FALSE
    ELSE function_lookahead(toks, pos + 2,
                            IF pos + 22 < Len(toks) THEN pos + 22 ELSE Len(toks), 0)

UpperNames == {"MAX", "A", "B"}

\* SchemaParser._is_constant_declaration; str.isupper() holds of the names
\* in UpperNames
is_constant_declaration(toks, pos) ==
    IF pos + 4 >= Len(toks) THEN FALSE
    ELSE /\ toks[pos + 1].token_type = "word"
         /\ toks[pos + 1].value \in UpperNames
         /\ toks[pos + 2].token_type = "colon"
         /\ toks[pos + 4].token_type = "equals"

\* SchemaParser.parse: the declaration loop
RECURSIVE parse_declarations(_, _, _)
parse_declarations(toks, pos, ast) ==
    IF speek(toks, pos) = NoSToken THEN SOk(ast, pos)
    ELSE IF speek(toks, pos).value = "struct"
    THEN Bind(parse_struct(toks, pos),
              LAMBDA r : IF ~r.ok THEN r
                         ELSE parse_declarations(toks, r.pos,
                                                 [ast EXCEPT !.structs = Append(@, r.val)]))
    ELSE IF is_function_declaration(toks, pos)
    THEN Bind(parse_function(toks, pos),
              LAMBDA r : IF ~r.ok THEN r
                         ELSE parse_declarations(toks, r.pos,
                                                 [ast EXCEPT !.functions = Append(@, r.val)]))
    ELSE IF is_constant_declaration(toks, pos)
    THEN Bind(parse_constant(toks, pos),
              LAMBDA r : IF ~r.ok THEN r
                         ELSE parse_declarations(toks, r.pos,
                                                 [ast EXCEPT !.constants = DictSet(@, r.val.key, r.val.val)]))
    ELSE Bind(parse_field(toks, pos),
              LAMBDA r : IF ~r.ok THEN r
                         ELSE parse_declarations(toks, r.pos,
                                                 [ast EXCEPT !.fields = Append(@, r.val)]))

\* parse_schema(content)
parse_schema(lexemes) ==
    Bind(tokenize(lexemes),
         LAMBDA t : IF ~t.ok THEN SErr(t.err)
                    ELSE parse_declarations(t.tokens, 0, EmptySchemaAST))

(***************************************************************************)
(* schema/validator.py, schema/registry.py                                 *)
(***************************************************************************)
\* the concatenation of f(s[1]), ..., f(s[n])
RECURSIVE FlatMap(_, _)
FlatMap(f(_), s) == IF Len(s) = 0 THEN <<>> ELSE f(Head(s)) \o FlatMap(f, Tail(s))

ConstraintOf(field, key) ==
    LET i == CHOOSE j \in 1..Len(field.constraints) : field.constraints[j].key = key
    IN field.constraints[i].val

HasConstraint(field, key) ==
    \E j \in 1..Len(field.constraints) : field.constraints[j].key = key

\* SchemaValidator._check_duplicates
check_duplicates(ast) ==
    LET Name(x) == <<x.name>>
        Key(x) == <<x.key>>
        all_names == FlatMap(Name, ast.fields) \o FlatMap(Name, ast.structs)
                     \o FlatMap(Name, ast.functions) \o FlatMap(Key, ast.constants)
        dup == {i \in 1..Len(all_names) : \E j \in 1..(i - 1) : all_names[j] = all_names[i]}
    IN [i \in 1..Cardinality(dup) |-> "Duplicate name"]

\* SchemaValidator._validate_field
validate_field(field) ==
    IF field.field_type = "Int"
    THEN (IF HasConstraint(field, "min") /\ HasConstraint(field, "max")
             /\ Num(ConstraintOf(field, "min")) > Num(ConstraintOf(field, "max"))
          THEN <<"min value greater than max value">> ELSE <<>>)
    ELSE IF field.field_type = "Str"
    THEN (IF HasConstraint(field, "format")
             /\ ConstraintOf(field, "format") \notin {TextV("email"), TextV("url"), TextV("uuid")}
          THEN <<"unknown format">> ELSE <<>>)
    ELSE <<>>

\* SchemaValidator._validate_struct
validate_struct(struct) ==
    (IF \E i, j \in 1..Len(struct.fields) :
           i # j /\ struct.fields[i].name = struct.fields[j].name
     THEN <<"duplicate field names">> ELSE <<>>)
    \o FlatMap(validate_field, struct.fields)

\* SchemaValidator._validate_function
validate_function(ast, func) ==
    LET Unknown(arg) ==
          IF (\E i \in 1..Len(ast.constants) : ast.constants[i].key = arg)
             \/ (\E i \in 1..Len(ast.fields) : ast.fields[i].name = arg)
          THEN <<>> ELSE <<"unknown default arg">>
    IN FlatMap(Unknown, func.default_args)

\* SchemaValidator.validate: the list of error messages; nothing is raised
SchemaValidator_validate(ast) ==
    LET OfFunction(func) == validate_function(ast, func)
    IN check_duplicates(ast)
       \o FlatMap(validate_field, ast.fields)
       \o FlatMap(validate_struct, ast.structs)
       \o FlatMap(OfFunction, ast.functions)

\* self._struct_map = {s.name: s for s in ast.structs}: the last struct of
\* a name
StructNames(ast) == {ast.structs[i].name : i \in 1..Len(ast.structs)}

struct_map(ast, name) ==
    LET idx == {i \in 1..Len(ast.structs) : ast.structs[i].name = name}
    IN ast.structs[CHOOSE i \in idx : \A j \in idx : j <= i]

IOk(entries)  == [raised |-> "", entries |-> entries]
IErr(e)       == [raised |-> e, entries |-> <<>>]

\* SchemaRegistry._index_struct: the loop over s.fields from field k on.
\* stack holds the struct names whose expansion is in progress; entering
\* one of them again never returns, which ends in RecursionError.
RECURSIVE index_struct_fields(_, _, _, _, _, _)
index_struct_fields(ast, prefix, struct_name, k, stack, entries) ==
    LET s == struct_map(ast, struct_name)
    IN IF k > Len(s.fields) THEN IOk(entries)
       ELSE LET f == s.fields[k]
                key == prefix \o "." \o f.name
                e1 == DictSet(entries, key, f)
            IN Bind(IF f.type_name \in StructNames(ast)
                    THEN (IF f.type_name \in stack \cup {struct_name}
                          THEN IErr("RecursionError")
                          ELSE index_struct_fields(ast, key, f.type_name, 1,
                                                   stack \cup {struct_name}, e1))
                    ELSE IOk(e1),
                    LAMBDA sub : IF sub.raised # "" THEN sub
                                 ELSE index_struct_fields(ast, prefix, struct_name, k + 1, stack, sub.entries))

\* SchemaRegistry._index_struct
index_struct(ast, prefix, struct_name, entries) ==
    index_struct_fields(ast, prefix, struct_name, 1, {}, entries)

\* SchemaRegistry._index: the loop over ast.fields from field k on
RECURSIVE index_fields(_, _, _)
index_fields(ast, k, entries) ==
    IF k > Len(ast.fields) THEN IOk(entries)
    ELSE LET f == ast.fields[k]
             e1 == DictSet(entries, f.name, f)
         IN Bind(IF f.type_name \in StructNames(ast)
                 THEN index_struct(ast, f.name, f.type_name, e1)
                 ELSE IOk(e1),
                 LAMBDA sub : IF sub.raised # "" THEN sub
                              ELSE index_fields(ast, k + 1, sub.entries))

\* SchemaRegistry.__init__: the validator's list of errors is not looked at,
\* then the symbol table is indexed
SchemaRegistry_init(ast) ==
    LET errors == SchemaValidator_validate(ast)
    IN Bind(index_fields(ast, 1, <<>>),
            LAMBDA r : [raised |-> r.raised, errors |-> errors, fields |-> r.entries])

\* repr(v) of a constraint value
ReprValue(v) == IF v.t = "text" THEN ReprStr(v.s) ELSE NumberText(v)

\* ", ".join(items) as lexemes
RECURSIVE JoinComma(_)
JoinComma(items) ==
    IF Len(items) = 0 THEN <<>>
    ELSE IF Len(items) = 1 THEN items[1]
    ELSE items[1] \o <<",">> \o JoinComma(Tail(items))

\* the lexemes of the text f.type_name: "list[a|b]" reads as list [ a | b ]
TypeNameLexemes(f) ==
    IF f.field_type = "List" /\ f.type_name \notin {"list", "List"}
    THEN <<"list", "[">>
         \o (IF Len(f.element_types) = 0 THEN <<>>
             ELSE <<f.element_types[1]>>
                  \o FlatMap(LAMBDA e : <<"|", e>>, Tail(f.element_types)))
         \o <<"]">>
    ELSE <<f.type_name>>

\* export_schema: f"{f.name}: {f.type_name}{q}{c}"
field_str(f) ==
    <<f.name, ":">> \o TypeNameLexemes(f)
    \o (IF f.optional THEN <<"?">> ELSE <<>>)
    \o (IF Len(f.constraints) = 0 THEN <<>>
        ELSE <<"{">>
             \o JoinComma([i \in 1..Len(f.constraints) |->
                              <<f.constraints[i].key, ":", ReprValue(f.constraints[i].val)>>])
             \o <<"}">>)

\* export_schema: f"struct {s.name} {{{flds}}}"
struct_str(st) ==
    <<"struct", st.name, "{">>
    \o JoinComma([i \in 1..Len(st.fields) |-> field_str(st.fields[i])])
    \o <<"}">>

\* SchemaRegistry.export_schema; the loop over functions reads
\* fn.parameters, which FunctionDefinition does not have
export_schema(ast) ==
    IF Len(ast.functions) > 0 THEN [raised |-> "AttributeError", text |-> <<>>]
    ELSE [raised |-> "",
          text |-> FlatMap(struct_str, ast.structs) \o FlatMap(field_str, ast.fields)]

(***************************************************************************)
(* SpecSchema: a schema text is parsed and handed to SchemaRegistry; the   *)
(* registry's export_schema text is parsed and registered again.           *)
(***************************************************************************)
DeclPool ==
    << <<"age", ":", "int">>,
       <<"age", ":", "int", "?", "{", "min", ":", "1", ",", "max", ":", "2", "}">>,
       <<"rate", ":", "float", "{", "min", ":", "0.5", "}">>,
       <<"email", ":", "str", "{", "format", ":", "email", "}">>,
       <<"tags", ":", "list", "[", "str", "|", "int", "]">>,
       <<"addr", ":", "A">>,
       <<"struct", "A", "{", "x", ":", "int", ",", "b", ":", "B", "}">>,
       <<"struct", "A", "{", "a", ":", "A", "}">>,
       <<"struct", "B", "{", "a", ":", "A", "}">>,
       <<"struct", "B", "{", "y", ":", "str", "?", "}">>,
       <<"f", ":", "(", "int", ",", "str", ")", "->", "bool">> >>

\* the texts of up to MaxDecls different declarations
SchemaTexts ==
    LET picks == UNION { {q \in [1..n -> 1..Len(DeclPool)] :
                             \A i, j \in 1..n : i # j => q[i] # q[j]} :
                         n \in 1..MaxDecls }
    IN { FlatMap(LAMBDA k : DeclPool[k], q) : q \in picks }

InitSchema ==
    /\ EvalInit0 /\ OpsInit0 /\ ValInit0 /\ EngInit0 /\ ShareInit0
    /\ pin \in {[text |-> t] : t \in SchemaTexts}
    /\ pout = [done |-> FALSE]

NoRegistry == [raised |-> "not built", errors |-> <<>>, fields |-> <<>>]

\* SchemaRegistry(parse_schema(text))
BuildRegistry ==
    /\ ~pout.done
    /\ LET p == parse_schema(pin.text)
       IN pout' = [done |-> TRUE, op |-> "registry", parsed |-> p.ok,
                   ast |-> IF p.ok THEN p.val ELSE EmptySchemaAST,
                   reg |-> IF p.ok THEN SchemaRegistry_init(p.val) ELSE NoRegistry]
    /\ UNCHANGED <<pin, evalVars, opsVars, valVars, engVars, shareVars>>

\* registry.export_schema(), then SchemaRegistry(parse_schema(exported))
ExportSchema ==
    /\ pout.done /\ pout.op = "registry" /\ pout.parsed /\ pout.reg.raised = ""
    /\ LET x == export_schema(pout.ast)
           p == IF x.raised = "" THEN parse_schema(x.text) ELSE SErr("not exported")
       IN pout' = [done |-> TRUE, op |-> "export", parsed |-> TRUE,
                   ast |-> pout.ast, reg |-> pout.reg,
                   exported |-> x,
                   reparsed |-> [ok |-> p.ok, err |-> p.err,
                                 ast |-> IF p.ok THEN p.val ELSE EmptySchemaAST],
                   rereg |-> IF p.ok THEN SchemaRegistry_init(p.val) ELSE NoRegistry]
    /\ UNCHANGED <<pin, evalVars, opsVars, valVars, engVars, shareVars>>

NextSchema == BuildRegistry \/ ExportSchema

SpecSchema == InitSchema /\ [][NextSchema]_vars

(***************************************************************************)
(* C19  For every schema the parser and validator accept, the text of      *)
(* export_schema parses and validates again and gives the same structs,    *)
(* top-level fields and functions (names, type names, optional flags,      *)
(* constraint maps, order within each group).                              *)
(***************************************************************************)
C19_ExportRoundTrip ==
    (pout.done /\ pout.op = "export" /\ pout.reg.errors = <<>>) =>
        /\ pout.exported.raised = ""
        /\ pout.reparsed.ok
        /\ pout.rereg.raised = "" /\ pout.rereg.errors = <<>>
        /\ pout.reparsed.ast.structs = pout.ast.structs
        /\ pout.reparsed.ast.fields = pout.ast.fields
        /\ pout.reparsed.ast.functions = pout.ast.functions

(***************************************************************************)
(* C20  Building the registry for a schema whose struct-field-type         *)
(* reference graph has a cycle ends with SchemaValidationError before any  *)
(* symbol is indexed, whether or not a top-level field uses the structs;   *)
(* a schema with acyclic nested structs is accepted.                       *)
(***************************************************************************)
\* the struct names the fields of struct name refer to
StructRefs(ast, name) ==
    {struct_map(ast, name).fields[i].type_name :
        i \in 1..Len(struct_map(ast, name).fields)} \cap StructNames(ast)

\* the struct names reachable from the names in S in at most k steps
RECURSIVE ReachableStructs(_, _, _)
ReachableStructs(ast, S, k) ==
    IF k = 0 THEN S
    ELSE ReachableStructs(ast, S \cup UNION {StructRefs(ast, n) : n \in S}, k - 1)

StructCycle(ast) ==
    \E n \in StructNames(ast) :
       n \in ReachableStructs(ast, StructRefs(ast, n), Len(ast.structs))

C20_CircularStructsRejected ==
    (pout.done /\ pout.parsed) =>
        IF StructCycle(pout.ast)
        THEN pout.reg.raised = "SchemaValidationError" /\ pout.reg.fields = <<>>
        ELSE pout.reg.raised = ""

(***************************************************************************)
(* C21  Before freeze, Engine.register_type(name, base, validator)         *)
(* succeeds also when name is already registered (the built-in aliases     *)
(* included), and afterwards the type registry holds one entry for name    *)
(* with the new base and validator.                                        *)
(***************************************************************************)
C21_RegisterTypeOverwrites ==
    (ret.op = "register_type" /\ ret.err # "EngineAlreadyFrozenError") =>
        /\ ret.err = ""
        /\ ret.arg \in DOMAIN types
        /\ types[ret.arg].validator = "validator"
        /\ \E ty \in NewTypes : ty[1] = ret.arg /\ types[ret.arg].base_type = ty[2]

(***************************************************************************)
(* SpecShare: an Engine and the CompiledRules objects it returns.  Python  *)
(* passes dict objects by reference: Engine.compile hands self._functions  *)
(* to CompiledRules, whose RuleEvaluator keeps `function_registry or {}`,  *)
(* the very object when it is non-empty and a new dict when it is empty.   *)
(***************************************************************************)
\* d[key] = val
dict_set(d, key, val) == [n \in DOMAIN d \cup {key} |-> IF n = key THEN val ELSE d[n]]

\* del d[key]
dict_del(d, key) == [n \in DOMAIN d \ {key} |-> d[n]]

\* RuleEvaluator.__init__: self.function_registry = function_registry or {};
\* 0 stands for the object passed in, Len(ds) + 1 for a dict created here
RuleEvaluator_init(function_registry, ds) ==
    IF DOMAIN function_registry # {} THEN 0 ELSE Len(ds) + 1

\* compiled.evaluator.function_registry of the k-th CompiledRules returned
function_registry_of(k) == IF compiled[k] = 0 THEN functions ELSE dicts[compiled[k]]

\* Engine.compile(rules, match) with the CompiledRules it returns
EngineCompile(texts) ==
    /\ Len(compiled) < MaxCompiled
    /\ called' = TRUE
    /\ frozen' = freeze(frozen)
    /\ ret' = [op |-> "compile", arg |-> Len(texts), err |-> compile_error(texts)]
    /\ IF compile_error(texts) # "" THEN UNCHANGED <<compiled, dicts>>
       ELSE /\ compiled' = Append(compiled, RuleEvaluator_init(functions, dicts))
            /\ dicts' = IF RuleEvaluator_init(functions, dicts) = 0 THEN dicts
                        ELSE Append(dicts, <<>>)
    /\ UNCHANGED <<functions, types, evalVars, opsVars, valVars, parseVars>>

\* CompiledRules.add_function(name, func) on the k-th CompiledRules
CompiledAddFunction(k, name, fn) ==
    /\ ret' = [op |-> "compiled.add_function", arg |-> name, err |-> "", on |-> k]
    /\ IF compiled[k] = 0
       THEN functions' = dict_set(functions, name, fn) /\ UNCHANGED dicts
       ELSE /\ dicts' = [dicts EXCEPT ![compiled[k]] = dict_set(@, name, fn)]
            /\ UNCHANGED functions
    /\ UNCHANGED <<frozen, called, types, compiled, evalVars, opsVars, valVars, parseVars>>

\* RuleEvaluator.remove_function(name) on the evaluator of the k-th
\* CompiledRules
EvaluatorRemoveFunction(k, name) ==
    /\ ret' = [op |-> "evaluator.remove_function", arg |-> name, err |-> "", on |-> k]
    /\ IF compiled[k] = 0
       THEN functions' = dict_del(functions, name) /\ UNCHANGED dicts
       ELSE /\ dicts' = [dicts EXCEPT ![compiled[k]] = dict_del(@, name)]
            /\ UNCHANGED functions
    /\ UNCHANGED <<frozen, called, types, compiled, evalVars, opsVars, valVars, parseVars>>

NextShare ==
    \/ \E name \in FnNames, fn \in FnImpls : AddFunction(name, fn)
    \/ \E ty \in NewTypes : RegisterType(ty[1], ty[2])
    \/ \E texts \in DefLists : EngineCompile(texts)
    \/ \E k \in 1..Len(compiled), name \in FnNames, fn \in FnImpls :
          CompiledAddFunction(k, name, fn)
    \/ \E k \in 1..Len(compiled), name \in FnNames : EvaluatorRemoveFunction(k, name)

SpecShare == Init /\ [][NextShare]_vars

(***************************************************************************)
(* C22  After an engine is frozen, no operation on the Engine or on a      *)
(* CompiledRules it returned changes the function registry, the type       *)
(* registry or the operator registry, and the function map one             *)
(* CompiledRules uses is the same before and after any operation on the    *)
(* engine or on another CompiledRules of the same engine.                  *)
(***************************************************************************)
C22_Step ==
    frozen =>
        /\ functions' = functions
        /\ types' = types
        /\ UNCHANGED <<by_token, symbols, keywords>>
        /\ \A k \in 1..Len(compiled) :
              ("on" \notin DOMAIN ret' \/ ret'.on # k) =>
                  function_registry_of(k)' = function_registry_of(k)

C22_FrozenRegistriesImmutable == [][C22_Step]_vars

(***************************************************************************)
(* types/registry.py: TypeRegistry used on its own                         *)
(***************************************************************************)
\* TypeRegistry.remove_type
TypeRegistry_remove_type(tys, name) ==
    IF name \in DOMAIN tys
    THEN [ok |-> TRUE, types |-> [n \in DOMAIN tys \ {name} |-> tys[n]]]
    ELSE [ok |-> FALSE, types |-> tys]

\* TypeRegistry._validate_builtin_type; isinstance(True, int) holds
validate_builtin_type(type_name, value) ==
    CASE type_name = "str"   -> value.t = "str"
      [] type_name = "int"   -> value.t \in {"int", "bool"}
      [] type_name = "float" -> value.t \in {"int", "bool", "float"}
      [] type_name = "bool"  -> value.t = "bool"
      [] type_name = "any"   -> TRUE
      [] OTHER               -> FALSE

\* type_def.validator(value) inside try / except Exception: return False;
\* "gt0" is lambda x: x > 0
call_validator(validator, value) ==
    CASE validator = "gt0" ->
             Bind(PyLt(IntV(0), value), LAMBDA c : IF c.ok THEN c.val.v = 1 ELSE FALSE)
      [] validator = "ret_true" -> TRUE
      [] OTHER -> FALSE

\* TypeRegistry._validate_constraints: every object has __lt__ and __gt__,
\* so the comparison is made for every value and raises TypeError for
\* values that do not compare
RECURSIVE validate_constraints(_, _)
validate_constraints(constraints, value) ==
    IF Len(constraints) = 0 THEN Ok(TRUE)
    ELSE Bind(Head(constraints),
              LAMBDA c :
                IF c.key = "min"
                THEN Bind(PyLt(value, c.val),
                          LAMBDA lt : IF ~lt.ok THEN Raise("TypeError")
                                      ELSE IF lt.val.v = 1 THEN Ok(FALSE)
                                      ELSE validate_constraints(Tail(constraints), value))
                ELSE IF c.key = "max"
                THEN Bind(PyLt(c.val, value),
                          LAMBDA gt : IF ~gt.ok THEN Raise("TypeError")
                                      ELSE IF gt.val.v = 1 THEN Ok(FALSE)
                                      ELSE validate_constraints(Tail(constraints), value))
                ELSE IF c.key = "length" /\ PyLen(value).ok /\ PyLen(value).val # c.val
                THEN Ok(FALSE)
                ELSE validate_constraints(Tail(constraints), value))

\* TypeRegistry.validate_value: visiting holds the type names whose
\* validate_value call is on the stack; entering one of them again repeats
\* the same calls without end, which Python ends with RecursionError
RECURSIVE validate_value(_, _, _, _)
validate_value(tys, type_name, value, visiting) ==
    IF type_name \notin DOMAIN tys THEN Ok(validate_builtin_type(type_name, value))
    ELSE IF type_name \in visiting THEN Raise("RecursionError")
    ELSE Bind(validate_value(tys, tys[type_name].base_type, value,
                             visiting \cup {type_name}),
              LAMBDA base_valid :
                IF ~base_valid.ok THEN base_valid
                ELSE IF ~base_valid.val THEN Ok(FALSE)
                ELSE IF tys[type_name].validator # "none"
                THEN Ok(call_validator(tys[type_name].validator, value))
                ELSE validate_constraints(tys[type_name].constraints, value))

\* TypeRegistry.validate_value(type_name, value)
TypeRegistry_validate_value(tys, type_name, value) ==
    validate_value(tys, type_name, value, {})

(***************************************************************************)
(* SpecTypes: register_type, remove_type and validate_value calls on one   *)
(* TypeRegistry                                                            *)
(***************************************************************************)
AliasNames == {"positive_int", "big_positive_int"}
BaseNames == {"int", "str", "Str"} \cup AliasNames
Validators == {"none", "gt0"}
ConstraintLists == {<<>>, <<[key |-> "min", val |-> IntV(1)]>>}
TypeValues == {IntV(2), IntV(0), StrV(1)}

\* TypeRegistry()
InitTypes ==
    /\ EvalInit0 /\ OpsInit0 /\ ValInit0 /\ EngInit0 /\ ParseInit0 /\ ShareInit0

\* registry.register_type(name, base_type, validator=validator, **constraints)
TypeRegister(name, base_type, validator, constraints) ==
    /\ LET r == TypeRegistry_register_type(types, name, base_type, validator, constraints)
       IN /\ types' = r.types
          /\ ret' = [op |-> "register_type", arg |-> name, base |-> base_type,
                     err |-> IF r.ok THEN "" ELSE "TypeValidationError"]
    /\ UNCHANGED <<frozen, called, functions, evalVars, opsVars, valVars, parseVars, shareVars>>

\* registry.remove_type(name)
TypeRemove(name) ==
    /\ LET r == TypeRegistry_remove_type(types, name)
       IN /\ types' = r.types
          /\ ret' = [op |-> "remove_type", arg |-> name, out |-> r.ok]
    /\ UNCHANGED <<frozen, called, functions, evalVars, opsVars, valVars, parseVars, shareVars>>

\* registry.validate_value(type_name, value)
TypeValidate(type_name, value) ==
    /\ ret' = [op |-> "validate_value", arg |-> type_name, value |-> value,
               out |-> TypeRegistry_validate_value(types, type_name, value)]
    /\ UNCHANGED <<frozen, called, functions, types, evalVars, opsVars, valVars,
                   parseVars, shareVars>>

NextTypes ==
    \/ \E name \in AliasNames, base_type \in BaseNames, validator \in Validators,
          constraints \in ConstraintLists :
          TypeRegister(name, base_type, validator, constraints)
    \/ \E name \in AliasNames : TypeRemove(name)
    \/ \E type_name \in BaseNames, value \in TypeValues : TypeValidate(type_name, value)

SpecTypes == InitTypes /\ [][NextTypes]_vars

(***************************************************************************)
(* C23  After any sequence of register_type calls every entry of the type  *)
(* registry has one of the primitive kinds as base, and a registration     *)
(* whose base is anything else, such as the name of another alias, is not  *)
(* stored.  Names are unique by construction (the registry is a map).      *)
(***************************************************************************)
PrimitiveBases == {"Int", "Float", "Str", "Bool", "int", "float", "str", "bool"}

C23_BasesArePrimitive ==
    \A n \in DOMAIN types : types[n].base_type \in PrimitiveBases

(***************************************************************************)
(* C30  In every registry state reachable through register_type and        *)
(* remove_type, validate_value ends and returns a boolean for every type   *)
(* name and value: resolution through base-type names never recurses       *)
(* without bound.                                                          *)
(***************************************************************************)
C30_ValidateValueReturns ==
    (ret.op = "validate_value") => (ret.out.ok /\ ret.out.val \in BOOLEAN)

(***************************************************************************)
(* SpecOpt: a rule compiled from the AST the parser built and from the AST *)
(* RuleOptimizer.optimize returns for it, both evaluated by                *)
(* RuleEvaluator.evaluate_rules_for_data on the same record.               *)
(***************************************************************************)
InitOpt == InitRule

\* RuleOptimizer.optimize(ast): the RuleAST is rebuilt around the optimized root
RuleOptimizer_optimize(ast) == optimize_node(ast)

\* RuleCompiler.compile_rule on the parsed AST (rule 1) and on the optimized
\* AST (rule 2), as RuleEngine.compile_rules does after optimize
OptCompile(ast, addr) ==
    /\ \E o \in {RuleOptimizer_optimize(ast)} :
          IF o.ok
          THEN /\ crules' = <<compile_rule(1, ast, addr), compile_rule(2, o.node, addr)>>
               /\ everr' = ""
          ELSE /\ crules' = <<>>
               /\ everr' = "RuleParseError"
    /\ pairs' = NoPairs
    /\ UNCHANGED <<crule, options, supplied, res, rule_metadata, mres>>
    /\ UNCHANGED <<opsVars, valVars, engVars, parseVars, shareVars>>

NextOpt ==
    \/ \E ast \in Asts, addr \in AddrDigits : OptCompile(ast, addr)
    \/ \E data \in DataSet : EvaluateRulesForData(data)

SpecOpt == InitOpt /\ [][NextOpt]_vars

(***************************************************************************)
(* C24  For every rule AST and every record, records that lack a variable  *)
(* of the rule included, the optimized AST and the unoptimized AST give    *)
(* the same verdict, an evaluation failure counting as false.              *)
(***************************************************************************)
C24_OptimizedVerdictEqual ==
    (pairs.done /\ Len(pairs.out) = 2) =>
        Truthy(pairs.out[1].value) = Truthy(pairs.out[2].value)

(***************************************************************************)
(* C25  The frozen flag is monotonic: the first compile or eval call sets  *)
(* it even when the call raises RuleParseError, no later call clears it,   *)
(* and a registration attempted after a failed compile or eval is          *)
(* rejected with EngineAlreadyFrozenError.                                 *)
(***************************************************************************)
C25_Step ==
    /\ frozen => frozen'
    /\ (ret'.op \in {"compile", "eval"}) => frozen'
    /\ (ret.op \in {"compile", "eval"} /\ ret.err = "RuleParseError"
          /\ ret'.op \in RegistrationOps)
         => (ret'.err = "EngineAlreadyFrozenError"
             /\ UNCHANGED <<functions, types, by_token, symbols, keywords>>)

C25_FrozenMonotonic == [][C25_Step]_vars

\* a first compile or eval that raised RuleParseError and left the engine frozen
C25_Witness ==
    /\ ret.op \in {"compile", "eval"} /\ ret.err = "RuleParseError"
    /\ frozen
    /\ types = BuiltinTypes

(***************************************************************************)
(* C29  With match mode BEST, RuleMatcher.process_matches terminates and   *)
(* returns the MatchResult that mode FIRST returns for the same rule       *)
(* results and metadata.                                                   *)
(***************************************************************************)
C29_BestReturnsAsFirst ==
    (mres.done /\ mres.op = "process_matches" /\ options.mode = "best") =>
        /\ mres.out.raised = ""
        /\ mres.out = process_matches([options EXCEPT !.mode = "first"], "d1",
                                      pairs.out, rule_metadata)

(***************************************************************************)
(* rules/parser.py: RuleParser._tokenize.  A rule text is the sequence of  *)
(* its characters; a token's value is the matched text as a string.        *)
(***************************************************************************)
Lower == {"a", "b", "c", "d", "e", "f", "g", "h", "i", "j", "k", "l", "m", "n", "o", "p", "q", "r", "s", "t", "u", "v", "w", "x", "y", "z"}
Upper == {"A", "B", "C", "D", "E", "F", "G", "H", "I", "J", "K", "L", "M", "N", "O", "P", "Q", "R", "S", "T", "U", "V", "W", "X", "Y", "Z"}
Digit == {"0", "1", "2", "3", "4", "5", "6", "7", "8", "9"}
Alpha == Lower \cup Upper
Alnum == Alpha \cup Digit                \* str.isalnum of one character
NameStart == Alpha \cup {"_"}            \* [a-zA-Z_]
NameChar == Alnum \cup {"_"}             \* [a-zA-Z0-9_]
Whitespace == {" ", "\t"}               \* [\s]

\* the matched characters as one string
RECURSIVE JoinChars(_)
JoinChars(chars) ==
    IF Len(chars) = 0 THEN "" ELSE Head(chars) \o JoinChars(Tail(chars))

\* OPERATORS, in list order
OPERATORS ==
    << <<">", "=">>,
       <<"<", "=">>,
       <<"!", "=">>,
       <<"n", "o", "t", " ", "i", "n">>,
       <<">">>,
       <<"<">>,
       <<"=">>,
       <<"i", "n">>,
       <<"a", "n", "d">>,
       <<"o", "r">>,
       <<"n", "o", "t">>,
       <<"t", "y", "p", "e", "o", "f">>,
       <<"i", "s", "_", "v", "a", "l", "i", "d">> >>

\* str.isalpha
isalpha(text) == Len(text) > 0 /\ \A i \in 1..Len(text) : text[i] \in Alpha

\* self.rule[pos:].startswith(op_str); pos counts from 1
startswith(rule, pos, op_str) ==
    /\ pos + Len(op_str) - 1 <= Len(rule)
    /\ SubSeq(rule, pos, pos + Len(op_str) - 1) = op_str

\* the whole-word test of the operator loop: true when the operator is
\* skipped (`continue`)
word_continues(rule, pos, op_str) ==
    /\ isalpha(op_str)
    /\ pos + Len(op_str) <= Len(rule)
    /\ rule[pos + Len(op_str)] \in Alnum

\* the operator loop: the index of the first operator that is appended as
\* a token at pos, 0 when the loop ends unmatched
RECURSIVE match_operator_at(_, _, _)
match_operator_at(rule, pos, k) ==
    IF k > Len(OPERATORS) THEN 0
    ELSE IF startswith(rule, pos, OPERATORS[k]) /\ ~word_continues(rule, pos, OPERATORS[k])
         THEN k
    ELSE match_operator_at(rule, pos, k + 1)

\* the end (exclusive) of the longest run of characters of class cls from pos
RECURSIVE run_end(_, _, _)
run_end(rule, pos, cls) ==
    IF pos <= Len(rule) /\ rule[pos] \in cls THEN run_end(rule, pos + 1, cls) ELSE pos

\* STRING.match: the end (exclusive) of a quoted string at pos, 0 for no
\* match; a backslash inside the quotes is outside the character set of
\* the rule texts and ends the match
match_string(rule, pos) ==
    IF rule[pos] \notin {"'", "\""} THEN 0
    ELSE Bind(run_end(rule, pos + 1, (NameChar \cup Whitespace \cup {"'", "\"", ".", ","})
                                      \ {rule[pos]}),
              LAMBDA e : IF e <= Len(rule) /\ rule[e] = rule[pos] THEN e + 1 ELSE 0)

\* NUMBER.match: \d+(\.\d+)?
match_number(rule, pos) ==
    IF rule[pos] \notin Digit THEN 0
    ELSE Bind(run_end(rule, pos, Digit),
              LAMBDA e : IF e + 1 <= Len(rule) /\ rule[e] = "." /\ rule[e + 1] \in Digit
                         THEN run_end(rule, e + 1, Digit)
                         ELSE e)

\* NAME.match
match_name(rule, pos) ==
    IF rule[pos] \notin NameStart THEN 0 ELSE run_end(rule, pos, NameChar)

TokOk(tokens) == [ok |-> TRUE, tokens |-> tokens, err |-> ""]
TokErr(e)     == [ok |-> FALSE, tokens |-> <<>>, err |-> e]

\* the token cut from rule[pos..e-1]
TokenAt(type, rule, pos, e) == Token(type, JoinChars(SubSeq(rule, pos, e - 1)))

\* the pattern loop of _tokenize: [type, end], end 0 when nothing matches
match_pattern(rule, pos) ==
    CASE match_string(rule, pos) # 0 -> [type |-> "string", end |-> match_string(rule, pos)]
      [] match_number(rule, pos) # 0 -> [type |-> "number", end |-> match_number(rule, pos)]
      [] match_name(rule, pos) # 0   -> [type |-> "name", end |-> match_name(rule, pos)]
      [] rule[pos] = "("             -> [type |-> "lparen", end |-> pos + 1]
      [] rule[pos] = ")"             -> [type |-> "rparen", end |-> pos + 1]
      [] rule[pos] = ","             -> [type |-> "comma", end |-> pos + 1]
      [] rule[pos] = "."             -> [type |-> "dot", end |-> pos + 1]
      [] OTHER                       -> [type |-> "none", end |-> 0]

\* RuleParser._tokenize: the while loop from pos with the tokens so far
RECURSIVE RuleParser_tokenize(_, _, _)
RuleParser_tokenize(rule, pos, tokens) ==
    IF pos > Len(rule) THEN TokOk(tokens)
    ELSE IF rule[pos] \in Whitespace
         THEN RuleParser_tokenize(rule, run_end(rule, pos, Whitespace), tokens)
    ELSE Bind(match_operator_at(rule, pos, 1),
              LAMBDA k :
                IF k # 0
                THEN RuleParser_tokenize(rule, pos + Len(OPERATORS[k]),
                              Append(tokens, Token("operator", JoinChars(OPERATORS[k]))))
                ELSE Bind(match_pattern(rule, pos),
                          LAMBDA m :
                            IF m.end = 0 THEN TokErr("RuleParseError")
                            ELSE RuleParser_tokenize(rule, m.end,
                                          Append(tokens, TokenAt(m.type, rule, pos, m.end)))))

\* parse_rule(rule, schema_ast): RuleParser(rule, schema_ast).parse()
parse_rule_text(rule) ==
    Bind(RuleParser_tokenize(rule, 1, <<>>),
         LAMBDA t : [tokens |-> t,
                     ast |-> IF t.ok THEN RuleParser_parse(t.tokens)
                             ELSE PErr(t.err)])

(***************************************************************************)
(* SpecTok: rule texts written as words separated by single spaces, put    *)
(* through parse_rule.                                                     *)
(***************************************************************************)
Words ==
    { <<"s", "c", "o", "r", "e">>,
      <<"a", "c", "t", "i", "v", "e">>,
      <<"i", "n", "_", "s", "t", "o", "c", "k">>,
      <<"n", "o", "t", "_", "r", "e", "a", "d", "y">>,
      <<"a", "n", "d", "_", "f", "l", "a", "g">>,
      <<"o", "r", "d", "e", "r">>,
      <<"i", "n", "d", "e", "x">>,
      <<"i", "n">>,
      <<"n", "o", "t">>,
      <<"a", "n", "d">>,
      <<"o", "r">>,
      <<">">>,
      <<"1">>,
      <<"2">>,
      <<"(">>,
      <<")">> }

KeywordWords == {<<"i", "n">>, <<"n", "o", "t">>, <<"a", "n", "d">>, <<"o", "r">>}

WordLists == UNION { [1..n -> Words] : n \in 1..MaxWords }

RECURSIVE JoinWords(_)
JoinWords(ws) ==
    IF Len(ws) = 1 THEN ws[1] ELSE ws[1] \o <<" ">> \o JoinWords(Tail(ws))

InitTok ==
    /\ EvalInit0 /\ OpsInit0 /\ ValInit0 /\ EngInit0 /\ ShareInit0
    /\ \E ws \in WordLists : pin = [words |-> ws, text |-> JoinWords(ws)]
    /\ pout = [done |-> FALSE]

\* parse_rule(text, schema_ast)
ParseRuleText ==
    /\ ~pout.done
    /\ pout' = [done |-> TRUE, out |-> parse_rule_text(pin.text)]
    /\ UNCHANGED <<pin, evalVars, opsVars, valVars, engVars, shareVars>>

NextTok == ParseRuleText

SpecTok == InitTok /\ [][NextTok]_vars

(***************************************************************************)
(* C26  parse_rule returns an AST only when every token of the rule text   *)
(* has been consumed; a token left after a complete expression makes it    *)
(* raise RuleParseError.                                                   *)
(***************************************************************************)
C26_AllTokensConsumed ==
    (pout.done /\ pout.out.ast.ok) =>
        pout.out.ast.pos = Len(pout.out.tokens.tokens) + 1

(***************************************************************************)
(* C28  The tokenizer emits a keyword operator (and, or, not, in, not in)  *)
(* only where the keyword stands as a whole word: an identifier that       *)
(* begins with a keyword and goes on with identifier characters is one     *)
(* name token, and `not in` is emitted only for the words `not` `in`.      *)
(***************************************************************************)
IsIdentifier(text) == match_name(text, 1) = Len(text) + 1

C28_KeywordsAreWholeWords ==
    pout.done =>
        /\ (Len(pin.words) = 1 /\ IsIdentifier(pin.text) /\ pin.text \notin KeywordWords)
              => pout.out.tokens = TokOk(<<Token("name", JoinChars(pin.text))>>)
        /\ \A i \in 1..Len(pout.out.tokens.tokens) :
              LET t == pout.out.tokens.tokens[i]
              IN (t.type = "operator" /\ t.value = "not in")
                   => \E j \in 1..(Len(pin.words) - 1) :
                         /\ pin.words[j] = <<"n", "o", "t">>
                         /\ pin.words[j + 1] = <<"i", "n">>

(***************************************************************************)
(* C27  get_binding_power(token) is none for a token without definitions   *)
(* and otherwise the binding power of the first definition registered      *)
(* under the token: a registration, accepted or rejected, never changes    *)
(* the answer for a token that has one, and the first accepted             *)
(* registration under a token fixes it.  In the standard preset the answer *)
(* is 10 for `or`, 20 for `and`, 30 for `not` and 40 for the comparison,   *)
(* membership and `contains` tokens.                                       *)
(***************************************************************************)
C27_Step ==
    /\ \A t \in PowerTokens :
          get_binding_power(by_token, t) # None
            => get_binding_power(by_token', t) = get_binding_power(by_token, t)
    /\ (opret'.op = "register" /\ get_binding_power(by_token, token(opret'.arg)) = None)
         => get_binding_power(by_token', token(opret'.arg))
              = (IF opret'.err = "" THEN IntV(opret'.arg.binding_power) ELSE None)
    /\ (opret'.op = "get_binding_power")
         => /\ (opret'.tok \notin DOMAIN by_token => opret'.val = None)
            /\ (opret'.tok \in DOMAIN by_token => opret'.val # None)
            /\ ("contains" \in keywords /\ opret'.tok # "within")
                 => opret'.val = IntV(CASE opret'.tok = "or" -> 10
                                        [] opret'.tok = "and" -> 20
                                        [] opret'.tok = "not" -> 30
                                        [] OTHER -> 40)

C27_FirstBindingPowerKept == [][C27_Step]_vars

\* the binding power of `in` asked for after a definition with another
\* binding power was registered behind the first one
C27_Witness ==
    /\ opret.op = "get_binding_power" /\ opret.tok = "in"
    /\ Len(Candidates(by_token, "in")) >= 2
    /\ \E i \in 2..Len(Candidates(by_token, "in")) :
          Candidates(by_token, "in")[i].binding_power
            # Candidates(by_token, "in")[1].binding_power
    /\ opret.val = IntV(Candidates(by_token, "in")[1].binding_power)

====
